---- MODULE Spec2Model ----
(***************************************************************************)
(* Model of internal/runtimehandlerhooks/high_performance_hooks.go: the    *)
(* high-performance runtime handler hooks of CRI-O.  The kernel files the  *)
(* hooks read and write (cgroup files, /proc/irq/default_smp_affinity, the *)
(* per-CPU sysfs power knobs, the save directory, the irqbalance config)   *)
(* are the state; every function of the source is an operator that maps a  *)
(* "world" record (the files plus the bookkeeping of the running call) to  *)
(* the world after it; every exported entry point is one action.           *)
(***************************************************************************)
EXTENDS Integers, Sequences, FiniteSets, TLC

VARIABLES
  cgroupV2,    \* node.CgroupIsV2()
  cspec,       \* c.Spec() of every container: Linux.Resources.CPU and Process.Env
  sandbox,     \* the sandbox of every container: CgroupParent() and Annotations()
  cg,          \* the cgroup tree: directory -> file -> content
  irqMask,     \* /proc/irq/default_smp_affinity, as a bit mask
  irqConfigExists, \* fileExists(irqBalanceConfigFile)
  irqBanned,   \* IRQBALANCE_BANNED_CPUS in the irqbalance config file, as a bit mask
  svcEnabled,  \* isServiceEnabled("irqbalance")
  binPresent,  \* exec.LookPath("irqbalance") succeeds
  knobLive,    \* /sys/devices/system/cpu/cpuN/...: knob -> cpu -> value
  knobSaved,   \* /var/run/crio/cpu/cpuN/...: knob -> cpu -> value or NoFile
  phase,       \* lifecycle position of every container, as driven by the caller
  lastCall,    \* the entry point that ran last, with its arguments
  ret,         \* what it returned
  wlog,        \* the writes it performed, in order
  steps,       \* the directives a hook ran, in order
  failure,     \* the first I/O failure of the last call: was one injected, and for
               \* setCPULoadBalancingV2 the depth of the directory, the error, and
               \* the directories whose rollback write failed
  irqLast,     \* per container: the last setIRQLoadBalancing call that wrote the mask
  irqBackup,   \* the banned-CPU backup file (irqBannedCPUConfigFile): exists, value
  irqProc      \* per container: where a setIRQLoadBalancing call in progress stands

vars == <<cgroupV2, cspec, sandbox, cg, irqMask, irqConfigExists, irqBanned, svcEnabled,
          binPresent,
          knobLive, knobSaved, phase, lastCall, ret, wlog, steps, failure,
          irqLast, irqBackup, irqProc>>

----------------------------------------------------------------------------
(* Bounds of the model. *)

\* CPUs of the node: width of the IRQ affinity mask, number of per-CPU knobs.
NumCPUs == 4

CPUs == 0 .. (NumCPUs - 1)

----------------------------------------------------------------------------
(* Constants of the source. *)

annotationTrue    == "true"
annotationDisable == "disable"
annotationEnable  == "enable"
milliCPUToCPU     == 1000

cpusetPartition      == "cpuset.cpus.partition"
cpusetExclusive      == "cpuset.cpus.exclusive"
cpusetCpus           == "cpuset.cpus"
cgroupSubTreeControl == "cgroup.subtree_control"
cgroupV1Quota        == "cpu.cfs_quota_us"
cgroupV2Quota        == "cpu.max"
schedLoadBalance     == "cpuset.sched_load_balance"

CgFiles == {cpusetPartition, cpusetExclusive, cpusetCpus, cgroupSubTreeControl,
            cgroupV1Quota, cgroupV2Quota, schedLoadBalance}

\* Results of a call: nil, or the error of the step that failed.
OK      == "nil"
EIO     == "EIO"
ENOENT  == "ENOENT"
EEXIST  == "EEXIST"
ErrNoCPUs     == "find container CPUs"
ErrAnnotation == "invalid annotation value"
ErrGovernor   == "governor not available"
ErrCmd        == "irqbalance --oneshot failed"
NoFile  == "<no file>"
Absent  == "<absent>"

----------------------------------------------------------------------------
(* The containers of the model and where their cgroups live. *)

Ctrs == {"c1", "c2"}

\* /proc/<pid>/cgroup of the container: the path below /sys/fs/cgroup, split at "/".
\* c1 and c2 are siblings in one pod.
CpusetPath(c) == <<"kubepods", "pod1", c>>

\* The CPU lists the kubelet's CPU manager gave the containers: pairwise disjoint.
PinnedCpus(c) == IF c = "c1" THEN {0, 1} ELSE {2}
\* The shared CPU pool of the node (h.sharedCPUs).
SharedCPUs == {NumCPUs - 1}

Prefixes(p) == {SubSeq(p, 1, k) : k \in 1 .. Len(p)}
ChildDir(c) == Append(CpusetPath(c), "cgroup-child")
CgDirs == UNION {Prefixes(CpusetPath(c)) : c \in Ctrs} \cup {ChildDir(c) : c \in Ctrs}

\* ch.GetAbsoluteControllerPodPath / GetAbsoluteControllerContainerPath
PodDir(c) == SubSeq(CpusetPath(c), 1, Len(CpusetPath(c)) - 1)
CtrDir(c) == CpusetPath(c)

----------------------------------------------------------------------------
(* The world a call runs in: the files, and the bookkeeping of the call. *)

World(faults, kind) ==
  [cg |-> cg, irqMask |-> irqMask, irqBanned |-> irqBanned,
   knobLive |-> knobLive, knobSaved |-> knobSaved, cspec |-> cspec,
   irqLast |-> irqLast, irqBackup |-> irqBackup,
   n |-> 0, faults |-> faults, kind |-> kind,
   wlog |-> <<>>, steps |-> <<>>, step |-> "-", err |-> OK, val |-> {},
   failDepth |-> 0, failErr |-> OK, injected |-> FALSE, revert |-> <<>>,
   revertFailed |-> {}, stop |-> FALSE]

\* A call is run under a set of failing operations: the indices, counted from 1
\* over the I/O operations the call performs, of those that fail, all with the
\* same errno.  Run(F) is the world after the call under F.  The sets worth
\* trying are: none; any one operation of the fault-free run; and, with it, any
\* one of the operations the call still performs after that failure (the
\* writes of the rollback).
FaultSets(Run(_)) ==
  {{}} \cup UNION {{{at}} \cup {{at, r} : r \in (at + 1) .. Run({at}).n} :
                  at \in 1 .. Run({}).n}
FaultKinds == {EIO, ENOENT}

\* Run F on w unless an earlier step has already failed.
Then(w, F(_)) == IF w.err = OK THEN F(w) ELSE w
\* Run F on w whether or not a step has failed: "w1 := ...; F(w1)".
Let(w, F(_)) == F(w)

Fail(w, e) == [w EXCEPT !.err = e]
\* The operation in progress is one of those made to fail.
Inject(w) == [w EXCEPT !.err = w.kind, !.injected = TRUE]

Logged(w, dir, file) == Append(w.wlog, [step |-> w.step, dir |-> dir, file |-> file])

\* cgroups.ReadFile(path, file): the content in w.val.
CgReadFile(w, d, file) ==
  LET w1 == [w EXCEPT !.n = @ + 1] IN
  IF ~w1.cg[d].exists THEN Fail(w1, ENOENT)
  ELSE IF w1.n \in w1.faults THEN Inject(w1)
  ELSE [w1 EXCEPT !.val = w1.cg[d][file]]

\* cgroups.WriteFile(path, file, data)
CgWriteFile(w, d, file, data) ==
  LET w1 == [w EXCEPT !.n = @ + 1] IN
  IF ~w1.cg[d].exists THEN Fail(w1, ENOENT)
  ELSE IF w1.n \in w1.faults THEN Inject(w1)
  ELSE [w1 EXCEPT !.cg[d][file] = data, !.wlog = Logged(w1, d, file)]


----------------------------------------------------------------------------
(* LoadBalancingController *)

\* cpusetOfContainer: the cpuset path of the container in w.val; reading the
\* pid and /proc/<pid>/cgroup can fail.
cpusetOfContainer(w, c) ==
  LET w1 == [w EXCEPT !.n = @ + 1] IN
  IF w1.n \in w1.faults THEN Inject(w1)
  ELSE [w1 EXCEPT !.val = CpusetPath(c)]

\* addOrRemoveCpusetFromFile: the content before the write in w.val.
\* A slip: the file is given the CPUs of the call (or none), whatever it held.
addOrRemoveCpusetFromFileReplacing(w, d, file, cpus, add) ==
  Then(CgReadFile(w, d, file), LAMBDA r :
    Then(CgWriteFile(r, d, file, IF add THEN cpus ELSE {}),
         LAMBDA x : [x EXCEPT !.val = r.val]))

addOrRemoveCpusetFromFile(w, d, file, cpus, add) ==
  Then(CgReadFile(w, d, file), LAMBDA r :
    Then(CgWriteFile(r, d, file, IF add THEN r.val \cup cpus ELSE r.val \ cpus),
         LAMBDA wr : [wr EXCEPT !.val = r.val]))

\* The loop over the directories of cpusetPath, from directory number i on;
\* w.revert is valuesForRevert.
RECURSIVE WalkDirectoriesIgnoringErrors(_, _, _, _, _)
WalkDirectoriesIgnoringErrors(w, directories, cpus, enable, i) ==
  IF i > Len(directories) THEN w
  ELSE Let(addOrRemoveCpusetFromFile(w, SubSeq(directories, 1, i), cpusetExclusive, cpus,
                                     ~enable),
           LAMBDA w1 : WalkDirectoriesIgnoringErrors([w1 EXCEPT !.err = OK], directories,
                                                     cpus, enable, i + 1))

RECURSIVE WalkDirectories(_, _, _, _, _)
WalkDirectories(w, directories, cpus, enable, i) ==
  IF i > Len(directories) THEN w
  ELSE Let(Then(IF ~enable
                THEN addOrRemoveCpusetFromFile(w, SubSeq(directories, 1, i), cpusetCpus,
                                               cpus, ~enable)
                ELSE w,
                LAMBDA x : addOrRemoveCpusetFromFile(x, SubSeq(directories, 1, i),
                                                     cpusetExclusive, cpus, ~enable)),
           LAMBDA w2 :
             IF w2.err # OK THEN [w2 EXCEPT !.failDepth = i, !.failErr = w2.err]
             ELSE WalkDirectories(
                    [w2 EXCEPT !.revert = Append(@, <<SubSeq(directories, 1, i), w2.val>>)],
                    directories, cpus, enable, i + 1))

\* The deferred function: write every captured value back; a failure is logged
\* and the error of the call stays what it was.  (Go ranges over the map in no
\* fixed order; the writes go to different files, so the order is immaterial.)
RevertValuesForgotten(w, i) == w
RECURSIVE RevertValues(_, _)
RevertValues(w, i) ==
  IF i > Len(w.revert) THEN w
  ELSE Let(CgWriteFile([w EXCEPT !.err = OK], w.revert[i][1], cpusetExclusive,
                       w.revert[i][2]),
           LAMBDA wr :
             RevertValues([wr EXCEPT !.err = w.err,
                                     !.revertFailed = IF wr.err = OK THEN @
                                                      ELSE @ \cup {w.revert[i][1]}],
                          i + 1))

setCPULoadBalancingV2(w, c, enable) ==
  Then(cpusetOfContainer(w, c), LAMBDA wp :
    Let(Then(WalkDirectories([wp EXCEPT !.revert = <<>>], wp.val, w.cspec[c].cpus, enable, 1),
             LAMBDA ww :
               Let(CgWriteFile(ww, wp.val, cpusetPartition, "isolated"),
                   LAMBDA wq :
                     IF wq.err = OK THEN wq
                     ELSE [wq EXCEPT !.failDepth = Len(wp.val) + 1,
                                     !.failErr = wq.err,
                                     !.err = IF wq.err = ENOENT /\ enable THEN OK ELSE @])),
        LAMBDA wr : IF wr.err # OK THEN RevertValues(wr, 1) ELSE wr))

\* A slip: the walk of cgroup v2 is done on v1 as well, before the write.
disableCPULoadBalancingV1Walking(w, c) ==
  Then(setCPULoadBalancingV2(w, c, FALSE), LAMBDA x :
    CgWriteFile(x, CpusetPath(c), schedLoadBalance, "0"))

disableCPULoadBalancingV1(w, c) ==
  Then(cpusetOfContainer(w, c), LAMBDA wp : CgWriteFile(wp, wp.val, schedLoadBalance, "0"))

\* A slip: the CPU list of the container is not looked at.
setCPULoadBalancingUnchecked(w, c, enable) ==
  IF cgroupV2 THEN setCPULoadBalancingV2(w, c, enable)
  ELSE IF ~enable THEN disableCPULoadBalancingV1(w, c)
  ELSE w

setCPULoadBalancing(w, c, enable) ==
  IF w.cspec[c].cpus = {} THEN Fail(w, ErrNoCPUs)
  ELSE IF cgroupV2 THEN setCPULoadBalancingV2(w, c, enable)
  ELSE IF ~enable THEN disableCPULoadBalancingV1(w, c)
  ELSE w

----------------------------------------------------------------------------
(* PowerKnobController *)

Knobs == {"latency", "governor"}
KnobFile(k) == IF k = "latency" THEN "pm_qos_resume_latency_us" ELSE "scaling_governor"

\* /sys/devices/system/cpu/cpuN/cpufreq/scaling_available_governors: CPU 1
\* cannot run the performance governor.
AvailableGovernors(cpu) ==
  IF cpu = 1 THEN {"powersave", "schedutil"} ELSE {"performance", "powersave", "schedutil"}

Min(S) == CHOOSE x \in S : \A y \in S : x <= y

\* One I/O operation that touches no modelled file (os.MkdirAll, reading the
\* pid of the container): it fails or it does not.
Io(w) ==
  LET w1 == [w EXCEPT !.n = @ + 1] IN
  IF w1.n \in w1.faults THEN Inject(w1) ELSE w1

\* os.ReadFile of the live knob of a CPU.
ReadKnob(w, k, cpu) ==
  LET w1 == [w EXCEPT !.n = @ + 1] IN
  IF w1.n \in w1.faults THEN Inject(w1) ELSE [w1 EXCEPT !.val = w1.knobLive[k][cpu]]

\* os.WriteFile of the live knob of a CPU.
WriteKnob(w, k, cpu, data) ==
  LET w1 == [w EXCEPT !.n = @ + 1] IN
  IF w1.n \in w1.faults THEN Inject(w1)
  ELSE [w1 EXCEPT !.knobLive[k][cpu] = data,
                  !.wlog = Logged(w1, <<"sysCPUDir", ToString(cpu)>>, KnobFile(k))]

\* os.ReadFile of the save record of a CPU: ErrNotExist when there is none.
ReadSaved(w, k, cpu) ==
  LET w1 == [w EXCEPT !.n = @ + 1] IN
  IF w1.knobSaved[k][cpu] = NoFile THEN Fail(w1, ENOENT)
  ELSE IF w1.n \in w1.faults THEN Inject(w1)
  ELSE [w1 EXCEPT !.val = w1.knobSaved[k][cpu]]

\* os.WriteFile of the save record of a CPU.
WriteSaved(w, k, cpu, data) ==
  LET w1 == [w EXCEPT !.n = @ + 1] IN
  IF w1.n \in w1.faults THEN Inject(w1)
  ELSE [w1 EXCEPT !.knobSaved[k][cpu] = data,
                  !.wlog = Logged(w1, <<"sysCPUSaveDir", ToString(cpu)>>, KnobFile(k))]

\* os.Remove of the save record of a CPU.
RemoveSaved(w, k, cpu) ==
  LET w1 == [w EXCEPT !.n = @ + 1] IN
  IF w1.knobSaved[k][cpu] = NoFile THEN Fail(w1, ENOENT)
  ELSE IF w1.n \in w1.faults THEN Inject(w1)
  ELSE [w1 EXCEPT !.knobSaved[k][cpu] = NoFile,
                  !.wlog = Logged(w1, <<"sysCPUSaveDir", ToString(cpu)>>, KnobFile(k))]

\* A slip: the save record gets the new latency, not the one read.
ApplyLatencySavingNewValue(w, cpu, latency) ==
  Then(Then(Then(ReadKnob(w, "latency", cpu), Io),
            LAMBDA x : WriteSaved(x, "latency", cpu, latency)),
       LAMBDA x : WriteKnob(x, "latency", cpu, latency))

\* The body of the loop of doSetCPUPMQOSResumeLatency for a non-empty latency.
ApplyLatency(w, cpu, latency) ==
  Then(ReadKnob(w, "latency", cpu), LAMBDA r :
    Then(Then(Io(r), LAMBDA x : WriteSaved(x, "latency", cpu, r.val)),
         LAMBDA x : WriteKnob(x, "latency", cpu, latency)))

\* The body of the loop of doSetCPUPMQOSResumeLatency for the empty latency;
\* w.stop is the "return nil" out of the loop.
RestoreLatency(w, cpu) ==
  Let(ReadSaved(w, "latency", cpu), LAMBDA r :
    IF r.err = ENOENT THEN [r EXCEPT !.err = OK, !.stop = TRUE]
    ELSE IF r.err # OK THEN r
    ELSE Then(WriteKnob(r, "latency", cpu, r.val),
              LAMBDA x : RemoveSaved(x, "latency", cpu)))

Max(S) == CHOOSE x \in S : \A y \in S : x >= y

\* A slip: the CPUs are taken from the highest to the lowest.
RECURSIVE LatencyLoopDescending(_, _, _)
LatencyLoopDescending(w, todo, latency) ==
  IF todo = {} THEN w
  ELSE Let(IF latency # "" THEN ApplyLatency(w, Max(todo), latency)
           ELSE RestoreLatency(w, Max(todo)),
           LAMBDA w1 : IF w1.err # OK \/ w1.stop THEN w1
                       ELSE LatencyLoopDescending(w1, todo \ {Max(todo)}, latency))

RECURSIVE LatencyLoop(_, _, _)
LatencyLoop(w, todo, latency) ==
  IF todo = {} THEN w
  ELSE Let(IF latency # "" THEN ApplyLatency(w, Min(todo), latency)
           ELSE RestoreLatency(w, Min(todo)),
           LAMBDA w1 : IF w1.err # OK \/ w1.stop THEN w1
                       ELSE LatencyLoop(w1, todo \ {Min(todo)}, latency))

doSetCPUPMQOSResumeLatency(w, c, latency) ==
  IF w.cspec[c].cpus = {} THEN Fail(w, ErrNoCPUs)
  ELSE [LatencyLoop(w, w.cspec[c].cpus, latency) EXCEPT !.stop = FALSE]

setCPUPMQOSResumeLatency(w, c, latency) == doSetCPUPMQOSResumeLatency(w, c, latency)

\* A slip: the list of available governors is read and not looked at.
isCPUGovernorSupportedAlways(w, governor, cpu) ==
  LET w1 == [w EXCEPT !.n = @ + 1] IN
  IF w1.n \in w1.faults THEN Inject(w1) ELSE w1

isCPUGovernorSupported(w, governor, cpu) ==
  LET w1 == [w EXCEPT !.n = @ + 1] IN
  IF w1.n \in w1.faults THEN Inject(w1)
  ELSE IF governor \in AvailableGovernors(cpu) THEN w1
  ELSE Fail(w1, ErrGovernor)

\* The body of the loop of doSetCPUFreqGovernor for a non-empty governor.
ApplyGovernor(w, cpu, governor) ==
  Then(ReadKnob(w, "governor", cpu), LAMBDA r :
    Then(Then(Then(isCPUGovernorSupported(r, governor, cpu), Io),
              LAMBDA x : WriteSaved(x, "governor", cpu, r.val)),
         LAMBDA x : WriteKnob(x, "governor", cpu, governor)))

\* A slip: a missing save record is an error like any other.
RestoreGovernorStrict(w, cpu) ==
  Then(ReadSaved(w, "governor", cpu), LAMBDA r :
    Then(WriteKnob(r, "governor", cpu, r.val),
         LAMBDA x : RemoveSaved(x, "governor", cpu)))

\* The body of the loop of doSetCPUFreqGovernor for the empty governor.
RestoreGovernor(w, cpu) ==
  Let(ReadSaved(w, "governor", cpu), LAMBDA r :
    IF r.err = ENOENT THEN [r EXCEPT !.err = OK, !.stop = TRUE]
    ELSE IF r.err # OK THEN r
    ELSE Then(WriteKnob(r, "governor", cpu, r.val),
              LAMBDA x : RemoveSaved(x, "governor", cpu)))

RECURSIVE GovernorLoop(_, _, _)
GovernorLoop(w, todo, governor) ==
  IF todo = {} THEN w
  ELSE Let(IF governor # "" THEN ApplyGovernor(w, Min(todo), governor)
           ELSE RestoreGovernor(w, Min(todo)),
           LAMBDA w1 : IF w1.err # OK \/ w1.stop THEN w1
                       ELSE GovernorLoop(w1, todo \ {Min(todo)}, governor))

doSetCPUFreqGovernor(w, c, governor) ==
  IF w.cspec[c].cpus = {} THEN Fail(w, ErrNoCPUs)
  ELSE [GovernorLoop(w, w.cspec[c].cpus, governor) EXCEPT !.stop = FALSE]

setCPUFreqGovernor(w, c, governor) == doSetCPUFreqGovernor(w, c, governor)

----------------------------------------------------------------------------
(* IRQAffinityController *)

IrqSmpAffinityProcFile == <<"proc", "irq">>
IrqBalanceConfigFile   == <<"etc", "sysconfig">>
IrqBalanceService      == <<"systemd">>

\* Bit i of the mask m.
Bit(m, i) == (m \div (2 ^ i)) % 2
BitsOf(m) == {i \in CPUs : Bit(m, i) = 1}
RECURSIVE MaskOf(_)
MaskOf(S) == IF S = {} THEN 0 ELSE LET i == Min(S) IN 2 ^ i + MaskOf(S \ {i})

\* UpdateIRQSmpAffinityMask(cpus, current, set): the mask with the bits of cpus
\* set or cleared, and its complement, the banned CPUs for irqbalance.
UpdateIRQSmpAffinityMask(cpus, current, set) ==
  LET bits == IF set THEN BitsOf(current) \cup cpus ELSE BitsOf(current) \ cpus
  IN  [mask |-> MaskOf(bits), banned |-> MaskOf(CPUs \ bits)]

\* updateIrqBalanceConfigFile: rewrite the IRQBALANCE_BANNED_CPUS line.
updateIrqBalanceConfigFile(w, newIRQBalanceSetting) ==
  LET w1 == [w EXCEPT !.n = @ + 1] IN
  IF w1.n \in w1.faults THEN Inject(w1)
  ELSE [w1 EXCEPT !.irqBanned = newIRQBalanceSetting,
                  !.wlog = Logged(w1, IrqBalanceConfigFile, "irqbalance")]

\* restartIrqBalanceService: the restart is requested; it may fail.
restartIrqBalanceService(w) ==
  LET w1 == [w EXCEPT !.n = @ + 1,
                      !.wlog = Logged(w, IrqBalanceService, "restart irqbalance")] IN
  IF w1.n \in w1.faults THEN Inject(w1) ELSE w1

\* cmdrunner.Command("irqbalance", "--oneshot").Run()
RunOneshot(w) ==
  LET w1 == [w EXCEPT !.n = @ + 1,
                      !.wlog = Logged(w, IrqBalanceService, "irqbalance --oneshot")] IN
  IF w1.n \in w1.faults THEN [w1 EXCEPT !.err = ErrCmd, !.injected = TRUE] ELSE w1

\* os.ReadFile(irqSmpAffinityFile)
ReadIrqMask(w) ==
  LET w1 == [w EXCEPT !.n = @ + 1] IN
  IF w1.n \in w1.faults THEN Inject(w1) ELSE [w1 EXCEPT !.val = w1.irqMask]

\* os.WriteFile(irqSmpAffinityFile, ...) by the call for container c.
WriteIrqMask(w, c, enable, data) ==
  LET w1 == [w EXCEPT !.n = @ + 1] IN
  IF w1.n \in w1.faults THEN Inject(w1)
  ELSE [w1 EXCEPT !.irqMask = data,
                  !.irqLast[c] = IF enable THEN "enable" ELSE "disable",
                  !.wlog = Logged(w1, IrqSmpAffinityProcFile, "default_smp_affinity")]

\* A slip: a missing binary and a failed restart are errors of the call.
ReconcileIrqBalancePropagating(w, newIRQBalanceSetting) ==
  Then(IF irqConfigExists THEN updateIrqBalanceConfigFile(w, newIRQBalanceSetting) ELSE w,
       LAMBDA w1 :
         IF ~svcEnabled \/ ~irqConfigExists
         THEN IF ~binPresent THEN Fail(w1, ErrCmd) ELSE RunOneshot(w1)
         ELSE restartIrqBalanceService(w1))

\* The tail of setIRQLoadBalancing, from isIrqConfigExists on.
ReconcileIrqBalance(w, newIRQBalanceSetting) ==
  Then(IF irqConfigExists THEN updateIrqBalanceConfigFile(w, newIRQBalanceSetting) ELSE w,
       LAMBDA w1 :
         IF ~svcEnabled \/ ~irqConfigExists
         THEN IF ~binPresent THEN w1 ELSE RunOneshot(w1)
         ELSE [restartIrqBalanceService(w1) EXCEPT !.err = OK])

\* A slip: the mask that was read is written back unchanged.
setIRQLoadBalancingWritingOldMask(w, c, enable) ==
  Then(ReadIrqMask(w), LAMBDA r :
    Then(WriteIrqMask(r, c, enable, r.val), LAMBDA x : ReconcileIrqBalance(x, 0)))

setIRQLoadBalancing(w, c, enable) ==
  IF w.cspec[c].cpus = {} THEN Fail(w, ErrNoCPUs)
  ELSE Then(ReadIrqMask(w), LAMBDA r :
         Then(WriteIrqMask(r, c, enable,
                           UpdateIRQSmpAffinityMask(w.cspec[c].cpus, r.val, enable).mask),
              LAMBDA x : ReconcileIrqBalance(x,
                           UpdateIRQSmpAffinityMask(w.cspec[c].cpus, r.val, enable).banned)))

\* RestoreIrqBalanceConfig, run when the node boots.
IrqBannedCPUConfigFile == <<"etc", "sysconfig", "orig_irq_banned_cpus">>
\* The content of a file that was created and not written.
EmptyFile == -1

\* isAllBitSet: every bit of the mask is set.
isAllBitSet(mask) == mask = 2 ^ NumCPUs - 1

\* retrieveIrqBannedCPUMasks: the banned CPUs of the config file in w.val; an
\* error when there is no config file or it cannot be read.
retrieveIrqBannedCPUMasks(w) ==
  LET w1 == [w EXCEPT !.n = @ + 1] IN
  IF ~irqConfigExists THEN Fail(w1, ENOENT)
  ELSE IF w1.n \in w1.faults THEN Inject(w1)
  ELSE [w1 EXCEPT !.val = w1.irqBanned]

\* os.Create(irqBannedCPUConfigFile): an empty file; bannedCPUMasks is what
\* the caller is about to write to it.
CreateBackup(w, bannedCPUMasks) ==
  LET w1 == [w EXCEPT !.n = @ + 1] IN
  IF w1.n \in w1.faults THEN Inject(w1)
  ELSE [w1 EXCEPT !.irqBackup = [exists |-> TRUE, value |-> EmptyFile,
                                 captured |-> bannedCPUMasks],
                  !.wlog = Logged(w1, IrqBannedCPUConfigFile, "create")]

\* irqBannedCPUsConfig.WriteString(bannedCPUMasks)
WriteBackup(w, bannedCPUMasks) ==
  LET w1 == [w EXCEPT !.n = @ + 1] IN
  IF w1.n \in w1.faults THEN Inject(w1)
  ELSE [w1 EXCEPT !.irqBackup.value = bannedCPUMasks,
                  !.wlog = Logged(w1, IrqBannedCPUConfigFile, "write")]

\* os.ReadFile(irqBannedCPUConfigFile)
ReadBackup(w) ==
  LET w1 == [w EXCEPT !.n = @ + 1] IN
  IF w1.n \in w1.faults THEN Inject(w1) ELSE [w1 EXCEPT !.val = w1.irqBackup.value]

\* A slip: the backup is taken again at every boot.
RestoreIrqBalanceConfigOverwriting(w) ==
  Then(ReadIrqMask(w), LAMBDA r :
    Let(retrieveIrqBannedCPUMasks(r), LAMBDA b :
      IF b.err # OK THEN [b EXCEPT !.err = OK]
      ELSE Then(CreateBackup(b, b.val), LAMBDA x : WriteBackup(x, b.val))))

RestoreIrqBalanceConfig(w) ==
  Then(ReadIrqMask(w), LAMBDA r :
    IF ~isAllBitSet(r.val) THEN r
    ELSE Let(retrieveIrqBannedCPUMasks(r), LAMBDA b :
           IF b.err # OK THEN [b EXCEPT !.err = OK]
           ELSE IF ~b.irqBackup.exists
           THEN Then(CreateBackup(b, b.val), LAMBDA x : WriteBackup(x, b.val))
           ELSE Then(ReadBackup(b), LAMBDA o :
                  IF b.val = o.val THEN o
                  ELSE Then(updateIrqBalanceConfigFile(o, o.val), LAMBDA u :
                         IF svcEnabled
                         THEN [restartIrqBalanceService(u) EXCEPT !.err = OK]
                         ELSE u))))

----------------------------------------------------------------------------
(* QuotaController *)

quotaFile == IF cgroupV2 THEN cgroupV2Quota ELSE cgroupV1Quota

\* disableCPUQuotaForCgroup: the libcontainer manager sets CpuQuota = -1.
disableCPUQuotaForCgroup(w, d) == CgWriteFile(w, d, quotaFile, -1)

\* setCPUQuota: resolve the cgroup of the container (which can fail), then lift
\* the quota of the pod and of the container.
setCPUQuota(w, c) ==
  LET w1 == Io(w)
      w2 == Then(w1, LAMBDA x : disableCPUQuotaForCgroup(x, PodDir(c)))
  IN  Then(w2, LAMBDA x : disableCPUQuotaForCgroup(x, CtrDir(c)))

----------------------------------------------------------------------------
(* AnnotationPolicy and EligibilityGate *)

CPULoadBalancingAnnotation == "cpu-load-balancing.crio.io"
CPUQuotaAnnotation         == "cpu-quota.crio.io"
IRQLoadBalancingAnnotation == "irq-load-balancing.crio.io"
CPUCStatesAnnotation       == "cpu-c-states.crio.io"
CPUFreqGovernorAnnotation  == "cpu-freq-governor.crio.io"
CPUSharedAnnotation        == "cpu-shared.crio.io"

\* annotations[key] of a Go map: the empty string when the key is missing.
Lookup(annotations, key) == IF key \in DOMAIN annotations THEN annotations[key] ELSE ""

shouldCPULoadBalancingBeDisabled(annotations) ==
  \/ Lookup(annotations, CPULoadBalancingAnnotation) = annotationTrue
  \/ Lookup(annotations, CPULoadBalancingAnnotation) = annotationDisable

shouldCPUQuotaBeDisabled(annotations) ==
  \/ Lookup(annotations, CPUQuotaAnnotation) = annotationTrue
  \/ Lookup(annotations, CPUQuotaAnnotation) = annotationDisable

shouldIRQLoadBalancingBeDisabled(annotations) ==
  \/ Lookup(annotations, IRQLoadBalancingAnnotation) = annotationTrue
  \/ Lookup(annotations, IRQLoadBalancingAnnotation) = annotationDisable

shouldCStatesBeConfigured(annotations) ==
  [present |-> CPUCStatesAnnotation \in DOMAIN annotations,
   value   |-> Lookup(annotations, CPUCStatesAnnotation)]

shouldFreqGovernorBeConfigured(annotations) ==
  [present |-> CPUFreqGovernorAnnotation \in DOMAIN annotations,
   value   |-> Lookup(annotations, CPUFreqGovernorAnnotation)]

requestedSharedCPUs(annotations, cName) ==
  LET key == CPUSharedAnnotation \o "/" \o cName IN
  key \in DOMAIN annotations /\ annotations[key] = annotationEnable

\* strings.Contains, on a path given as its sequence of words.
Contains(str, substr) ==
  \E i \in 1 .. (Len(str) - Len(substr) + 1) : SubSeq(str, i, i + Len(substr) - 1) = substr

isCgroupParentBurstable(s) == Contains(s.cgroupParent, <<"burstable">>)
isCgroupParentBestEffort(s) == Contains(s.cgroupParent, <<"besteffort">>)
isContainerRequestWholeCPU(cSpec) == cSpec.shares % 1024 = 0

\* A slip: the gate forgets the whole-CPU test.
shouldRunHooksIgnoringShares(cSpec, s) ==
  ~isCgroupParentBurstable(s) /\ ~isCgroupParentBestEffort(s)

shouldRunHooks(cSpec, s) ==
  IF isCgroupParentBurstable(s) THEN FALSE
  ELSE IF isCgroupParentBestEffort(s) THEN FALSE
  ELSE IF ~isContainerRequestWholeCPU(cSpec) THEN FALSE
  ELSE TRUE

----------------------------------------------------------------------------
(* SharedCPUController *)

\* A slip: the number of CPUs is taken for a number of milli-CPUs.
calculateCFSQuotaOfMilliCPUs(cpus, period) ==
  (Cardinality(cpus) * period) \div milliCPUToCPU

calculateCFSQuota(cpus, period) ==
  LET milliValue == Cardinality(cpus) * 1000 IN
  (milliValue * period) \div milliCPUToCPU

\* os.Mkdir(cgroupChildDir): the directory must not exist yet.
MkdirChild(w, d) ==
  LET w1 == [w EXCEPT !.n = @ + 1] IN
  IF w1.cg[d].exists THEN Fail(w1, EEXIST)
  ELSE IF w1.n \in w1.faults THEN Inject(w1)
  ELSE [w1 EXCEPT !.cg[d].exists = TRUE, !.wlog = Logged(w1, d, "mkdir")]

injectCpusetEnv(w, c, isolated, shared) ==
  [w EXCEPT !.cspec[c].env = @ \o <<[name |-> "OPENSHIFT_ISOLATED_CPUS", cpus |-> isolated],
                                     [name |-> "OPENSHIFT_SHARED_CPUS", cpus |-> shared]>>]

\* A slip: the container cgroup is not turned back into a member before the
\* child is made.
MoveIsolatedToChildKeepingPartition(w, c, isolatedCPUs) ==
  LET ctrCgroup == CtrDir(c)
      cgroupChildDir == ChildDir(c)
      w1 == CgWriteFile(w, ctrCgroup, cgroupSubTreeControl, "+cpu +cpuset")
      w3 == Then(w1, LAMBDA x : MkdirChild(x, cgroupChildDir))
      w4 == Then(w3, LAMBDA x : CgWriteFile(x, cgroupChildDir, cpusetCpus, isolatedCPUs))
      w5 == Then(w4, LAMBDA x : CgWriteFile(x, cgroupChildDir, cpusetExclusive, isolatedCPUs))
  IN  Then(w5, LAMBDA x : CgWriteFile(x, cgroupChildDir, cpusetPartition, "isolated"))

\* The nested isolated partition of setSharedCPUs (cgroup v2, load balancing
\* disabled): lines 849-872.
MoveIsolatedToChild(w, c, isolatedCPUs) ==
  LET ctrCgroup == CtrDir(c)
      cgroupChildDir == ChildDir(c)
      w1 == CgWriteFile(w, ctrCgroup, cgroupSubTreeControl, "+cpu +cpuset")
      w2 == Then(w1, LAMBDA x : CgWriteFile(x, ctrCgroup, cpusetPartition, "member"))
      w3 == Then(w2, LAMBDA x : MkdirChild(x, cgroupChildDir))
      w4 == Then(w3, LAMBDA x : CgWriteFile(x, cgroupChildDir, cpusetCpus, isolatedCPUs))
      w5 == Then(w4, LAMBDA x : CgWriteFile(x, cgroupChildDir, cpusetExclusive, isolatedCPUs))
  IN  Then(w5, LAMBDA x : CgWriteFile(x, cgroupChildDir, cpusetPartition, "isolated"))

\* A slip: the container scope is updated before the pod scope.
setSharedCPUsContainerFirst(w, c, sharedCPUs) ==
  IF w.cspec[c].cpus = {} THEN Fail(w, ErrNoCPUs)
  ELSE LET isolatedCPUs == w.cspec[c].cpus
           ctrCpuSet == isolatedCPUs \cup sharedCPUs
           quota == calculateCFSQuota(ctrCpuSet, w.cspec[c].period)
           w1 == Io(w)
           w2 == Then(w1, Io)
           w3 == Then(w2, LAMBDA x :
                   addOrRemoveCpusetFromFile(x, CtrDir(c), cpusetCpus, sharedCPUs, TRUE))
           w4 == Then(w3, LAMBDA x : CgWriteFile(x, CtrDir(c), quotaFile, quota))
           w5 == Then(w4, LAMBDA x :
                   addOrRemoveCpusetFromFile(x, PodDir(c), cpusetCpus, sharedCPUs, TRUE))
           w6 == Then(w5, LAMBDA x : CgWriteFile(x, PodDir(c), quotaFile, quota))
           w7 == IF shouldCPULoadBalancingBeDisabled(sandbox[c].annotations) /\ cgroupV2
                 THEN Then(w6, LAMBDA x : MoveIsolatedToChild(x, c, isolatedCPUs))
                 ELSE w6
       IN  Then(w7, LAMBDA x : injectCpusetEnv(x, c, isolatedCPUs, sharedCPUs))

setSharedCPUs(w, c, sharedCPUs) ==
  IF w.cspec[c].cpus = {} THEN Fail(w, ErrNoCPUs)
  ELSE LET isolatedCPUs == w.cspec[c].cpus
           ctrCpuSet == isolatedCPUs \cup sharedCPUs
           quota == calculateCFSQuota(ctrCpuSet, w.cspec[c].period)
           w1 == Io(w)
           w2 == Then(w1, Io)
           w3 == Then(w2, LAMBDA x :
                   addOrRemoveCpusetFromFile(x, PodDir(c), cpusetCpus, sharedCPUs, TRUE))
           w4 == Then(w3, LAMBDA x : CgWriteFile(x, PodDir(c), quotaFile, quota))
           w5 == Then(w4, LAMBDA x :
                   addOrRemoveCpusetFromFile(x, CtrDir(c), cpusetCpus, sharedCPUs, TRUE))
           w6 == Then(w5, LAMBDA x : CgWriteFile(x, CtrDir(c), quotaFile, quota))
           w7 == IF shouldCPULoadBalancingBeDisabled(sandbox[c].annotations) /\ cgroupV2
                 THEN Then(w6, LAMBDA x : MoveIsolatedToChild(x, c, isolatedCPUs))
                 ELSE w6
       IN  Then(w7, LAMBDA x : injectCpusetEnv(x, c, isolatedCPUs, sharedCPUs))

----------------------------------------------------------------------------
(* HookOrchestrator *)

\* One directive of a hook: skipped when an earlier one failed or when its
\* annotation does not ask for it; the error it returns is wrapped with its name.
Directive(w, name, requested, F(_)) ==
  IF w.err # OK \/ ~requested THEN w
  ELSE F([w EXCEPT !.step = name, !.steps = Append(@, name)])

\* The error of the failed directive, or nil.
Return(w) == IF w.err = OK THEN [w EXCEPT !.step = "-"] ELSE w

\* A slip: a value that is not 'enable' is taken for 'disable'.
ConfigureCStatesLenient(w, c, value) ==
  CASE value = annotationEnable  -> setCPUPMQOSResumeLatency(w, c, "0")
    [] OTHER                     -> setCPUPMQOSResumeLatency(w, c, "n/a")

\* The switch on the value of the c-states annotation in PreStart.
ConfigureCStates(w, c, value) ==
  CASE value = annotationEnable  -> setCPUPMQOSResumeLatency(w, c, "0")
    [] value = annotationDisable -> setCPUPMQOSResumeLatency(w, c, "n/a")
    [] OTHER                     -> Fail(w, ErrAnnotation)

\* A slip: IRQ balancing is disabled before the shared CPUs are set up.
PreStartIrqBeforeShared(w, c) ==
  LET annotations == sandbox[c].annotations IN
  IF ~shouldRunHooks(w.cspec[c], sandbox[c]) THEN w
  ELSE LET w1 == Directive(w, "lb", shouldCPULoadBalancingBeDisabled(annotations),
                           LAMBDA x : setCPULoadBalancing(x, c, FALSE))
           w2 == Directive(w1, "irq", shouldIRQLoadBalancingBeDisabled(annotations),
                           LAMBDA x : setIRQLoadBalancing(x, c, FALSE))
           w3 == Directive(w2, "shared", requestedSharedCPUs(annotations, c),
                           LAMBDA x : setSharedCPUs(x, c, SharedCPUs))
           w4 == Directive(w3, "quota", shouldCPUQuotaBeDisabled(annotations),
                           LAMBDA x : setCPUQuota(x, c))
           w5 == Directive(w4, "cstates", shouldCStatesBeConfigured(annotations).present,
                           LAMBDA x : ConfigureCStates(x, c,
                                        shouldCStatesBeConfigured(annotations).value))
           w6 == Directive(w5, "governor", shouldFreqGovernorBeConfigured(annotations).present,
                           LAMBDA x : setCPUFreqGovernor(x, c,
                                        shouldFreqGovernorBeConfigured(annotations).value))
       IN  Return(w6)

PreStart(w, c) ==
  LET annotations == sandbox[c].annotations IN
  IF ~shouldRunHooks(w.cspec[c], sandbox[c]) THEN w
  ELSE LET w1 == Directive(w, "lb", shouldCPULoadBalancingBeDisabled(annotations),
                           LAMBDA x : setCPULoadBalancing(x, c, FALSE))
           w2 == Directive(w1, "shared", requestedSharedCPUs(annotations, c),
                           LAMBDA x : setSharedCPUs(x, c, SharedCPUs))
           w3 == Directive(w2, "irq", shouldIRQLoadBalancingBeDisabled(annotations),
                           LAMBDA x : setIRQLoadBalancing(x, c, FALSE))
           w4 == Directive(w3, "quota", shouldCPUQuotaBeDisabled(annotations),
                           LAMBDA x : setCPUQuota(x, c))
           w5 == Directive(w4, "cstates", shouldCStatesBeConfigured(annotations).present,
                           LAMBDA x : ConfigureCStates(x, c,
                                        shouldCStatesBeConfigured(annotations).value))
           w6 == Directive(w5, "governor", shouldFreqGovernorBeConfigured(annotations).present,
                           LAMBDA x : setCPUFreqGovernor(x, c,
                                        shouldFreqGovernorBeConfigured(annotations).value))
       IN  Return(w6)

\* A slip: load balancing is re-enabled before IRQ balancing.
PreStopLoadBalancingFirst(w, c) ==
  LET annotations == sandbox[c].annotations IN
  IF ~shouldRunHooks(w.cspec[c], sandbox[c]) THEN w
  ELSE LET w1 == Directive(w, "lb", shouldCPULoadBalancingBeDisabled(annotations),
                           LAMBDA x : setCPULoadBalancing(x, c, TRUE))
           w2 == Directive(w1, "irq", shouldIRQLoadBalancingBeDisabled(annotations),
                           LAMBDA x : setIRQLoadBalancing(x, c, TRUE))
           w3 == Directive(w2, "cstates", shouldCStatesBeConfigured(annotations).present,
                           LAMBDA x : setCPUPMQOSResumeLatency(x, c, ""))
           w4 == Directive(w3, "governor", shouldFreqGovernorBeConfigured(annotations).present,
                           LAMBDA x : setCPUFreqGovernor(x, c, ""))
       IN  Return(w4)

PreStop(w, c) ==
  LET annotations == sandbox[c].annotations IN
  IF ~shouldRunHooks(w.cspec[c], sandbox[c]) THEN w
  ELSE LET w1 == Directive(w, "irq", shouldIRQLoadBalancingBeDisabled(annotations),
                           LAMBDA x : setIRQLoadBalancing(x, c, TRUE))
           w2 == Directive(w1, "lb", shouldCPULoadBalancingBeDisabled(annotations),
                           LAMBDA x : setCPULoadBalancing(x, c, TRUE))
           w3 == Directive(w2, "cstates", shouldCStatesBeConfigured(annotations).present,
                           LAMBDA x : setCPUPMQOSResumeLatency(x, c, ""))
           w4 == Directive(w3, "governor", shouldFreqGovernorBeConfigured(annotations).present,
                           LAMBDA x : setCPUFreqGovernor(x, c, ""))
       IN  Return(w4)

\* DefaultCPULoadBalanceHooks.PostStop: re-enable CPU load balancing, whatever
\* the container and its annotations.
DefaultCPULoadBalanceHooksPostStop(w, c) ==
  Return(Directive(w, "lb", TRUE, LAMBDA x : setCPULoadBalancing(x, c, TRUE)))

\* A slip: PostStop asks the eligibility gate first, as the other hooks do.
PostStopGated(w, c) ==
  IF ~shouldRunHooks(w.cspec[c], sandbox[c]) THEN w
  ELSE DefaultCPULoadBalanceHooksPostStop(w, c)

PostStop(w, c) == DefaultCPULoadBalanceHooksPostStop(w, c)

----------------------------------------------------------------------------
(* Initial states. *)

\* A cgroup directory as the kubelet and the runtime leave it before any hook:
\* the CFS quota of a guaranteed pod is one period per CPU.
NewDir(exists, cpus, exclusive) ==
  [f \in CgFiles \cup {"exists"} |->
     CASE f = "exists"             -> exists
       [] f = cpusetCpus           -> cpus
       [] f = cpusetExclusive      -> exclusive
       [] f = cpusetPartition      -> "member"
       [] f = cgroupSubTreeControl -> ""
       [] f = schedLoadBalance     -> "1"
       [] OTHER                    -> Cardinality(cpus) * 100000]

Below(d) == UNION {PinnedCpus(c) : c \in {x \in Ctrs : d \in Prefixes(CpusetPath(x))}}

InitCg(rootExclusive) ==
  [d \in CgDirs |->
     IF d \in {ChildDir(c) : c \in Ctrs} THEN NewDir(FALSE, {}, {})
     ELSE IF Len(d) = 1 THEN NewDir(TRUE, CPUs, rootExclusive)
     ELSE NewDir(TRUE, Below(d), {})]

GuaranteedSpec(c) == [cpus |-> PinnedCpus(c), shares |-> 1024, period |-> 100000, env |-> <<>>]
NoAnnotations == [k \in {} |-> ""]

\* No backup of the banned CPUs yet; no setIRQLoadBalancing call in progress.
NoBackup == [exists |-> FALSE, value |-> 0, captured |-> 0]
IdleProc == [pc |-> "idle", enable |-> FALSE, current |-> 0, banned |-> 0]

NoFailure == [depth |-> 0, err |-> OK, injected |-> FALSE, revertFailed |-> {}]
NoCall == [op |-> "none", c |-> "c1", enable |-> FALSE, value |-> ""]

\* The containers: guaranteed pods with whole CPUs and no annotation.
InitCtrs ==
  /\ cspec = [c \in Ctrs |-> GuaranteedSpec(c)]
  /\ sandbox = [c \in Ctrs |-> [cgroupParent |-> <<"kubepods", "pod">>,
                                 annotations |-> NoAnnotations]]

\* The IRQ affinity of a freshly booted node with a managed irqbalance service.
InitNode ==
  /\ irqMask = 2 ^ NumCPUs - 1
  /\ irqConfigExists = TRUE
  /\ irqBanned = 0
  /\ svcEnabled = TRUE
  /\ binPresent = TRUE

\* The power knobs at their defaults, nothing saved, and no call made yet.
InitKnobsAndCalls ==
  /\ knobLive = [k \in {"latency", "governor"} |->
                  [cpu \in CPUs |-> IF k = "latency" THEN "100" ELSE "schedutil"]]
  /\ knobSaved = [k \in {"latency", "governor"} |-> [cpu \in CPUs |-> NoFile]]
  /\ phase = [c \in Ctrs |-> "created"]
  /\ lastCall = NoCall
  /\ ret = [err |-> OK, step |-> "-"]
  /\ wlog = <<>>
  /\ steps = <<>>
  /\ failure = NoFailure
  /\ irqLast = [c \in Ctrs |-> "none"]
  /\ irqBackup = NoBackup
  /\ irqProc = [c \in Ctrs |-> IdleProc]

InitRest == InitCtrs /\ InitNode /\ InitKnobsAndCalls

\* The state after the call that left the world w.
Commit(w, call) ==
  /\ cg' = w.cg
  /\ irqMask' = w.irqMask
  /\ irqBanned' = w.irqBanned
  /\ knobLive' = w.knobLive
  /\ knobSaved' = w.knobSaved
  /\ cspec' = w.cspec
  /\ irqLast' = w.irqLast
  /\ irqBackup' = w.irqBackup
  /\ lastCall' = call
  /\ ret' = [err |-> w.err, step |-> w.step]
  /\ wlog' = w.wlog
  /\ steps' = w.steps
  /\ failure' = [depth |-> w.failDepth, err |-> w.failErr, injected |-> w.injected,
                 revertFailed |-> w.revertFailed]
  /\ UNCHANGED <<cgroupV2, sandbox, irqConfigExists, svcEnabled, binPresent, irqProc>>

----------------------------------------------------------------------------
(* SpecLB: setCPULoadBalancing called for the containers in any order, under *)
(* any failure of its I/O, while the runtime removes container cgroups.      *)

InitLB ==
  /\ cgroupV2 \in BOOLEAN
  /\ cg = InitCg(SharedCPUs)
  /\ InitRest

SetCPULoadBalancing(c, enable, F, kind) ==
  LET w == setCPULoadBalancing(World(F, kind), c, enable) IN
  /\ Commit(w, [op |-> "setCPULoadBalancing", c |-> c, enable |-> enable, value |-> ""])
  /\ UNCHANGED phase

\* The runtime (or systemd) removes the cgroup of a stopped container.
RemoveCgroup(c) ==
  /\ cg[CtrDir(c)].exists
  /\ cg' = [cg EXCEPT ![CtrDir(c)] = NewDir(FALSE, {}, {}),
                      ![ChildDir(c)] = NewDir(FALSE, {}, {})]
  /\ lastCall' = [op |-> "RemoveCgroup", c |-> c, enable |-> FALSE, value |-> ""]
  /\ ret' = [err |-> OK, step |-> "-"]
  /\ wlog' = <<>>
  /\ steps' = <<>>
  /\ failure' = NoFailure
  /\ UNCHANGED <<cgroupV2, cspec, sandbox, irqMask, irqConfigExists, irqBanned, svcEnabled,
                 binPresent,
                 knobLive, knobSaved, phase, irqLast, irqBackup, irqProc>>

\* Every failure is tried on the calls for c1; the calls for its sibling c2 run
\* without failures, which keeps the state space small.
NextLB ==
  \/ \E enable \in BOOLEAN, kind \in FaultKinds :
       \E F \in FaultSets(LAMBDA X : setCPULoadBalancing(World(X, kind), "c1", enable)) :
         SetCPULoadBalancing("c1", enable, F, kind)
  \/ \E enable \in BOOLEAN : SetCPULoadBalancing("c2", enable, {}, EIO)
  \/ \E c \in Ctrs : RemoveCgroup(c)

SpecLB == InitLB /\ [][NextLB]_vars

----------------------------------------------------------------------------
(* SpecLBUnset: the same calls on a cgroup v2 node where the pod cgroup has *)
(* no cpuset.cpus of its own (the kubelet pins containers, not pods), which *)
(* is the state the cpuset.cpus write of the disable walk is there for.     *)

InitCgUnset ==
  [d \in CgDirs |->
     IF d \in {PodDir(c) : c \in Ctrs}
     THEN [InitCg(SharedCPUs)[d] EXCEPT ![cpusetCpus] = {}]
     ELSE InitCg(SharedCPUs)[d]]

InitLBUnset ==
  /\ cgroupV2 = TRUE
  /\ cg = InitCgUnset
  /\ InitRest

SpecLBUnset == InitLBUnset /\ [][NextLB]_vars

----------------------------------------------------------------------------
(* SpecKnob: a power-knob setter called for the containers in any order, to *)
(* apply a value or to restore, under any failure of its I/O.  The two      *)
(* setters read and write disjoint files (knobLive[k], knobSaved[k]), so a   *)
(* behaviour that mixes them is the product of one behaviour of each: a     *)
(* behaviour of SpecKnob stays with the setter it called first.             *)

Latencies == {"0", "n/a"}
Governors == {"performance", "powersave"}

InitKnob ==
  /\ cgroupV2 = TRUE
  /\ cg = InitCg(SharedCPUs)
  /\ InitRest

SetCPUPMQOSResumeLatency(c, latency, F) ==
  LET w == setCPUPMQOSResumeLatency(World(F, EIO), c, latency) IN
  /\ lastCall.op \in {"none", "setCPUPMQOSResumeLatency"}
  /\ Commit(w, [op |-> "setCPUPMQOSResumeLatency", c |-> c, enable |-> FALSE,
                value |-> latency])
  /\ UNCHANGED phase

SetCPUFreqGovernor(c, governor, F) ==
  LET w == setCPUFreqGovernor(World(F, EIO), c, governor) IN
  /\ lastCall.op \in {"none", "setCPUFreqGovernor"}
  /\ Commit(w, [op |-> "setCPUFreqGovernor", c |-> c, enable |-> FALSE,
                value |-> governor])
  /\ UNCHANGED phase

NextKnob ==
  \/ \E c \in Ctrs, latency \in Latencies \cup {""} :
       \E F \in FaultSets(LAMBDA X : setCPUPMQOSResumeLatency(World(X, EIO), c, latency)) :
         SetCPUPMQOSResumeLatency(c, latency, F)
  \/ \E c \in Ctrs, governor \in Governors \cup {""} :
       \E F \in FaultSets(LAMBDA X : setCPUFreqGovernor(World(X, EIO), c, governor)) :
         SetCPUFreqGovernor(c, governor, F)

SpecKnob == InitKnob /\ [][NextKnob]_vars

----------------------------------------------------------------------------
(* SpecIRQ: setIRQLoadBalancing called for the containers in any order, one *)
(* call at a time, under any failure of its I/O, on a node with or without  *)
(* an irqbalance config file, service and binary.                           *)

InitIRQ ==
  /\ cgroupV2 = TRUE
  /\ cg = InitCg(SharedCPUs)
  /\ InitCtrs
  /\ irqMask = 2 ^ NumCPUs - 1
  /\ irqConfigExists \in BOOLEAN
  /\ irqBanned = 0
  /\ svcEnabled \in BOOLEAN
  /\ binPresent \in BOOLEAN
  /\ InitKnobsAndCalls

SetIRQLoadBalancing(c, enable, F) ==
  LET w == setIRQLoadBalancing(World(F, EIO), c, enable) IN
  /\ Commit(w, [op |-> "setIRQLoadBalancing", c |-> c, enable |-> enable, value |-> ""])
  /\ UNCHANGED phase

NextIRQ ==
  \E c \in Ctrs, enable \in BOOLEAN :
    \E F \in FaultSets(LAMBDA X : setIRQLoadBalancing(World(X, EIO), c, enable)) :
      SetIRQLoadBalancing(c, enable, F)

SpecIRQ == InitIRQ /\ [][NextIRQ]_vars

----------------------------------------------------------------------------
(* SpecIRQRace: setIRQLoadBalancing called for the containers by concurrent  *)
(* goroutines, nothing serializing them: a call is a sequence of steps, one  *)
(* per file it touches, and the steps of the calls interleave.  No I/O fails. *)

\* Line 396: os.ReadFile(irqSmpAffinityFile) into currentIRQSMPSetting.
RaceReadMask(c, enable) ==
  /\ irqProc[c].pc = "idle"
  /\ cspec[c].cpus # {}
  /\ irqProc' = [irqProc EXCEPT ![c] = [pc |-> "read", enable |-> enable,
                                        current |-> irqMask, banned |-> 0]]
  /\ lastCall' = [op |-> "setIRQLoadBalancing", c |-> c, enable |-> enable, value |-> ""]
  /\ UNCHANGED <<cgroupV2, cspec, sandbox, cg, irqMask, irqConfigExists, irqBanned,
                 svcEnabled, binPresent, knobLive, knobSaved, phase, ret, wlog, steps,
                 failure, irqLast, irqBackup>>

\* Lines 401-407: the new mask is computed from what was read and written.
RaceWriteMask(c) ==
  LET new == UpdateIRQSmpAffinityMask(cspec[c].cpus, irqProc[c].current, irqProc[c].enable)
  IN  /\ irqProc[c].pc = "read"
      /\ irqMask' = new.mask
      /\ irqLast' = [irqLast EXCEPT ![c] = IF irqProc[c].enable THEN "enable" ELSE "disable"]
      /\ irqProc' = [irqProc EXCEPT ![c].pc = "written", ![c].banned = new.banned]
      /\ UNCHANGED <<cgroupV2, cspec, sandbox, cg, irqConfigExists, irqBanned, svcEnabled,
                     binPresent, knobLive, knobSaved, phase, lastCall, ret, wlog, steps,
                     failure, irqBackup>>

\* Lines 409-433: the config file, when it exists, gets the banned CPUs computed
\* with the mask; irqbalance is run once or restarted; the call returns.
RaceReconcile(c) ==
  /\ irqProc[c].pc = "written"
  /\ irqBanned' = ReconcileIrqBalance(World({}, EIO), irqProc[c].banned).irqBanned
  /\ irqProc' = [irqProc EXCEPT ![c] = IdleProc]
  /\ UNCHANGED <<cgroupV2, cspec, sandbox, cg, irqMask, irqConfigExists, svcEnabled,
                 binPresent, knobLive, knobSaved, phase, lastCall, ret, wlog, steps,
                 failure, irqLast, irqBackup>>

NextIRQRace ==
  \/ \E c \in Ctrs, enable \in BOOLEAN : RaceReadMask(c, enable)
  \/ \E c \in Ctrs : RaceWriteMask(c)
  \/ \E c \in Ctrs : RaceReconcile(c)

SpecIRQRace == InitIRQ /\ [][NextIRQRace]_vars

----------------------------------------------------------------------------
(* SpecRestore: the node boots and runs RestoreIrqBalanceConfig, under any   *)
(* failure of its I/O; containers get IRQ balancing disabled and enabled;    *)
(* the node reboots, which puts the kernel's all-ones mask back.             *)

InitRestore ==
  /\ cgroupV2 = TRUE
  /\ cg = InitCg(SharedCPUs)
  /\ InitCtrs
  /\ irqMask = 2 ^ NumCPUs - 1
  /\ irqConfigExists \in BOOLEAN
  /\ irqBanned = 0
  /\ svcEnabled \in BOOLEAN
  /\ binPresent = TRUE
  /\ InitKnobsAndCalls

CallRestoreIrqBalanceConfig(F) ==
  LET w == RestoreIrqBalanceConfig(World(F, EIO)) IN
  /\ Commit(w, [op |-> "RestoreIrqBalanceConfig", c |-> "c1", enable |-> FALSE,
                value |-> ""])
  /\ UNCHANGED phase

\* The kernel starts with every CPU in the default affinity mask.
Reboot ==
  /\ ~isAllBitSet(irqMask)
  /\ irqMask' = 2 ^ NumCPUs - 1
  /\ irqLast' = [c \in Ctrs |-> "none"]
  /\ lastCall' = [op |-> "Reboot", c |-> "c1", enable |-> FALSE, value |-> ""]
  /\ ret' = [err |-> OK, step |-> "-"]
  /\ wlog' = <<>>
  /\ failure' = NoFailure
  /\ UNCHANGED <<cgroupV2, cspec, sandbox, cg, irqConfigExists, irqBanned, svcEnabled,
                 binPresent, knobLive, knobSaved, phase, steps, irqBackup, irqProc>>

NextRestore ==
  \/ \E F \in FaultSets(LAMBDA X : RestoreIrqBalanceConfig(World(X, EIO))) :
       CallRestoreIrqBalanceConfig(F)
  \/ \E c \in Ctrs, enable \in BOOLEAN : SetIRQLoadBalancing(c, enable, {})
  \/ Reboot

SpecRestore == InitRestore /\ [][NextRestore]_vars

----------------------------------------------------------------------------
(* SpecShared: setSharedCPUs called once for each container that asked for  *)
(* shared CPUs, with a shared set that is disjoint from, overlaps or lies   *)
(* inside the container's own CPUs, for two CFS periods, under any failure  *)
(* of its I/O.                                                              *)

Periods == {100000, 50000}

SharedChoices == {{NumCPUs - 1}, {NumCPUs - 2, NumCPUs - 1}, {1, NumCPUs - 1}, {0, 1}}

InitShared ==
  /\ cgroupV2 \in BOOLEAN
  /\ cg = InitCg(SharedCPUs)
  /\ \E period \in Periods :
       cspec = [c \in Ctrs |-> [GuaranteedSpec(c) EXCEPT !.period = period]]
  /\ \E lb \in {Absent, annotationDisable} :
       sandbox = [c \in Ctrs |->
                    [cgroupParent |-> <<"kubepods", "pod1">>,
                     annotations |->
                       IF lb = Absent
                       THEN (CPUSharedAnnotation \o "/" \o c) :> annotationEnable
                       ELSE (CPUSharedAnnotation \o "/" \o c) :> annotationEnable
                            @@ CPULoadBalancingAnnotation :> lb]]
  /\ InitNode
  /\ InitKnobsAndCalls

\* The call the runtime makes from PreStart, once for a container.
SetSharedCPUs(c, sharedCPUs, F) ==
  /\ phase[c] = "created"
  /\ Commit(setSharedCPUs(World(F, EIO), c, sharedCPUs),
            [op |-> "setSharedCPUs", c |-> c, enable |-> FALSE, value |-> sharedCPUs])
  /\ phase' = [phase EXCEPT ![c] = "running"]

NextShared ==
  \/ \E sharedCPUs \in SharedChoices :
       \E F \in FaultSets(LAMBDA X : setSharedCPUs(World(X, EIO), "c1", sharedCPUs)) :
         SetSharedCPUs("c1", sharedCPUs, F)
  \/ \E sharedCPUs \in SharedChoices : SetSharedCPUs("c2", sharedCPUs, {})

SpecShared == InitShared /\ [][NextShared]_vars

----------------------------------------------------------------------------
(* SpecHooks: the life of one container, c1, of any QoS class, CPU shares   *)
(* and annotations: the runtime calls PreStart when it starts the container,*)
(* PreStop when it stops a container that started, and PostStop at the end  *)
(* or after a failure, each under any failure of its I/O.                   *)

HookCtr == "c1"

CgroupParents == {<<"kubepods", "pod1">>,
                  <<"kubepods", "burstable", "pod1">>,
                  <<"kubepods", "besteffort", "pod1">>}

\* The values tried for every annotation; Absent leaves the key out.
AnnotationChoices ==
  [lb       : {Absent, annotationDisable},
   shared   : {Absent, annotationEnable},
   irq      : {Absent, annotationTrue},
   quota    : {Absent, annotationDisable, annotationEnable},
   cstates  : {Absent, annotationEnable, annotationDisable, "bogus"},
   governor : {Absent, "performance", "powersave"}]

Annotations(ch, cName) ==
  LET pairs == {<<CPULoadBalancingAnnotation, ch.lb>>,
                <<CPUSharedAnnotation \o "/" \o cName, ch.shared>>,
                <<IRQLoadBalancingAnnotation, ch.irq>>,
                <<CPUQuotaAnnotation, ch.quota>>,
                <<CPUCStatesAnnotation, ch.cstates>>,
                <<CPUFreqGovernorAnnotation, ch.governor>>}
      present == {pr \in pairs : pr[2] # Absent}
  IN  [key \in {pr[1] : pr \in present} |-> (CHOOSE pr \in present : pr[1] = key)[2]]

InitHooks ==
  /\ cgroupV2 \in BOOLEAN
  /\ cg = InitCg(SharedCPUs)
  /\ \E shares \in {1024, 1500} :
       cspec = [c \in Ctrs |-> IF c = HookCtr
                                THEN [GuaranteedSpec(c) EXCEPT !.shares = shares]
                                ELSE GuaranteedSpec(c)]
  /\ \E parent \in CgroupParents, ch \in AnnotationChoices :
       sandbox = [c \in Ctrs |->
                    IF c = HookCtr
                    THEN [cgroupParent |-> parent, annotations |-> Annotations(ch, c)]
                    ELSE [cgroupParent |-> <<"kubepods", "pod">>,
                          annotations |-> NoAnnotations]]
  /\ InitNode
  /\ InitKnobsAndCalls

HookCall(op, c) == [op |-> op, c |-> c, enable |-> FALSE, value |-> ""]

HookPreStart(c, F) ==
  LET w == PreStart(World(F, EIO), c) IN
  /\ phase[c] = "created"
  /\ Commit(w, HookCall("PreStart", c))
  /\ phase' = [phase EXCEPT ![c] = IF w.err = OK THEN "running" ELSE "failed"]

HookPreStop(c, F) ==
  LET w == PreStop(World(F, EIO), c) IN
  /\ phase[c] = "running"
  /\ Commit(w, HookCall("PreStop", c))
  /\ phase' = [phase EXCEPT ![c] = "stopping"]

HookPostStop(c, F) ==
  LET w == PostStop(World(F, EIO), c) IN
  /\ phase[c] # "stopped"
  /\ Commit(w, HookCall("PostStop", c))
  /\ phase' = [phase EXCEPT ![c] = "stopped"]

NextHooks ==
  \/ /\ phase[HookCtr] = "created"
     /\ \E F \in FaultSets(LAMBDA X : PreStart(World(X, EIO), HookCtr)) :
          HookPreStart(HookCtr, F)
  \/ /\ phase[HookCtr] = "running"
     /\ \E F \in FaultSets(LAMBDA X : PreStop(World(X, EIO), HookCtr)) :
          HookPreStop(HookCtr, F)
  \/ /\ phase[HookCtr] # "stopped"
     /\ \E F \in FaultSets(LAMBDA X : PostStop(World(X, EIO), HookCtr)) :
          HookPostStop(HookCtr, F)

SpecHooks == InitHooks /\ [][NextHooks]_vars

----------------------------------------------------------------------------
(* SpecEdge: the same life of c1, for a guaranteed container with whole     *)
(* CPUs whose spec may carry no CPU list, and for every value of the        *)
(* c-states annotation, the empty string included.                          *)

EdgeChoices ==
  [lb       : {Absent, annotationDisable},
   shared   : {Absent, annotationEnable},
   irq      : {Absent, annotationTrue},
   quota    : {Absent, annotationDisable},
   cstates  : {Absent, annotationEnable, annotationDisable, "bogus", ""},
   governor : {Absent, "performance"}]

InitEdge ==
  /\ cgroupV2 \in BOOLEAN
  /\ cg = InitCg(SharedCPUs)
  /\ \E cpus \in {PinnedCpus(HookCtr), {}} :
       cspec = [c \in Ctrs |-> IF c = HookCtr
                                THEN [GuaranteedSpec(c) EXCEPT !.cpus = cpus]
                                ELSE GuaranteedSpec(c)]
  /\ \E ch \in EdgeChoices :
       sandbox = [c \in Ctrs |->
                    IF c = HookCtr
                    THEN [cgroupParent |-> <<"kubepods", "pod1">>,
                          annotations |-> Annotations(ch, c)]
                    ELSE [cgroupParent |-> <<"kubepods", "pod">>,
                          annotations |-> NoAnnotations]]
  /\ InitNode
  /\ InitKnobsAndCalls

SpecEdge == InitEdge /\ [][NextHooks]_vars

----------------------------------------------------------------------------
(* Claims about the atomicity of the disable walk, checked under SpecLBUnset. *)

\* C20 as stated, for the calls whose rollback writes all went through: when
\* setCPULoadBalancing(disable) returns an error on cgroup v2, cpuset.cpus and
\* cpuset.cpus.exclusive of every directory of the container's path hold the
\* value they had before the call.
C20_AsStated ==
  [][(/\ cgroupV2 /\ lastCall'.op = "setCPULoadBalancing" /\ ~lastCall'.enable
      /\ ret'.err # OK /\ failure'.revertFailed = {}) =>
       \A d \in Prefixes(CpusetPath(lastCall'.c)) :
         /\ cg'[d][cpusetExclusive] = cg[d][cpusetExclusive]
         /\ cg'[d][cpusetCpus] = cg[d][cpusetCpus]
    ]_vars

\* C20, what the rollback does cover: under the same condition
\* cpuset.cpus.exclusive of every directory holds its value of before the call.
C20_ExclusiveRolledBack ==
  [][(/\ cgroupV2 /\ lastCall'.op = "setCPULoadBalancing" /\ ~lastCall'.enable
      /\ ret'.err # OK /\ failure'.revertFailed = {}) =>
       \A d \in Prefixes(CpusetPath(lastCall'.c)) :
         cg'[d][cpusetExclusive] = cg[d][cpusetExclusive]
    ]_vars

----------------------------------------------------------------------------
(* Claims about setCPULoadBalancing on cgroup v2, checked under SpecLB. *)

\* The last (or, primed, the current) call is setCPULoadBalancing on cgroup v2.
IsLBCallV2(call) == cgroupV2 /\ call.op = "setCPULoadBalancing"

\* The positions in the write log of the writes to file of directory d.
WritesTo(log, d, file) == {i \in DOMAIN log : log[i].dir = d /\ log[i].file = file}

\* C5 as stated: when a read or write fails at depth k, or the final partition
\* write fails, the call returns the error of the failing step and every
\* directory at depth < k has the cpuset.cpus.exclusive it had before the call,
\* also when the rollback of some directory fails.
C5_AsStated ==
  [][(IsLBCallV2(lastCall') /\ failure'.depth >= 1) =>
       /\ ret'.err # OK
       /\ ret'.err = failure'.err
       /\ \A d \in Prefixes(CpusetPath(lastCall'.c)) :
            Len(d) < failure'.depth => cg'[d][cpusetExclusive] = cg[d][cpusetExclusive]
    ]_vars

\* C5, amended: when a read or write fails at depth k, or the final partition
\* write fails with anything but "not found" while enabling, the call returns
\* the error of the failing step, whether or not a rollback write fails, and
\* every directory at depth < k whose rollback write did not fail has the
\* cpuset.cpus.exclusive it had before the call.
C5_Rollback ==
  [][(/\ IsLBCallV2(lastCall')
      /\ failure'.depth >= 1
      /\ ~(/\ lastCall'.enable
            /\ failure'.depth = Len(CpusetPath(lastCall'.c)) + 1
            /\ failure'.err = ENOENT)) =>
       /\ ret'.err # OK
       /\ ret'.err = failure'.err
       /\ \A d \in Prefixes(CpusetPath(lastCall'.c)) :
            (Len(d) < failure'.depth /\ d \notin failure'.revertFailed) =>
              cg'[d][cpusetExclusive] = cg[d][cpusetExclusive]
    ]_vars

\* C5, witness: a disable that failed at the leaf, after which one ancestor was
\* rolled back (written twice) and the rollback of the other failed.
C5_Witness ==
  /\ IsLBCallV2(lastCall)
  /\ ~lastCall.enable
  /\ failure.depth = Len(CpusetPath(lastCall.c))
  /\ ret.err = failure.err
  /\ ret.err # OK
  /\ Cardinality(failure.revertFailed) = 1
  /\ \E d \in Prefixes(CpusetPath(lastCall.c)) \ failure.revertFailed :
       Cardinality(WritesTo(wlog, d, cpusetExclusive)) = 2

\* Every directory of the path has a write of cpuset.cpus.exclusive before
\* position i of the log.
AllLevelsWrittenBefore(log, path, i) ==
  \A d \in Prefixes(path) : \E j \in WritesTo(log, d, cpusetExclusive) : j < i

\* C6 as stated: cpuset.cpus.partition is written only in the disable case, on
\* the leaf, after every level's cpuset.cpus.exclusive write; never when enabling.
C6_AsStated ==
  IsLBCallV2(lastCall) =>
    \A i \in DOMAIN wlog :
      wlog[i].file = cpusetPartition =>
        /\ ~lastCall.enable
        /\ wlog[i].dir = CtrDir(lastCall.c)
        /\ AllLevelsWrittenBefore(wlog, CpusetPath(lastCall.c), i)

\* C6, amended: in the disable and in the enable case alike,
\* cpuset.cpus.partition is written only on the leaf, with "isolated", and only
\* after every level's cpuset.cpus.exclusive write has succeeded; an enable
\* whose walk succeeds writes it too, unless that write itself fails.
C6_PartitionLast ==
  IsLBCallV2(lastCall) =>
    /\ \A i \in DOMAIN wlog :
         wlog[i].file = cpusetPartition =>
           /\ wlog[i].dir = CtrDir(lastCall.c)
           /\ i = Len(wlog)
           /\ cg[CtrDir(lastCall.c)][cpusetPartition] = "isolated"
           /\ AllLevelsWrittenBefore(wlog, CpusetPath(lastCall.c), i)
    /\ (ret.err = OK /\ failure.depth = 0) =>
         \E i \in DOMAIN wlog : wlog[i].file = cpusetPartition

\* C6, witness: a successful disable, whose last write is the partition write.
C6_Witness ==
  /\ IsLBCallV2(lastCall)
  /\ ~lastCall.enable
  /\ ret.err = OK
  /\ wlog # <<>>
  /\ wlog[Len(wlog)].file = cpusetPartition
  /\ cg[CtrDir(lastCall.c)][cpusetPartition] = "isolated"

\* C7 as stated: re-enabling (enable = TRUE) for a container whose cgroup
\* directory no longer exists returns success, no I/O failing otherwise.
C7_AsStated ==
  (/\ IsLBCallV2(lastCall)
   /\ lastCall.enable
   /\ ~cg[CtrDir(lastCall.c)].exists
   /\ ~failure.injected) => ret.err = OK

----------------------------------------------------------------------------
(* Claims about the power knobs, checked under SpecKnob. *)

IsKnobCall(call) == call.op \in {"setCPUPMQOSResumeLatency", "setCPUFreqGovernor"}
KnobOf(call) == IF call.op = "setCPUPMQOSResumeLatency" THEN "latency" ELSE "governor"
IsApply(call) == IsKnobCall(call) /\ call.value # ""
IsRestore(call) == IsKnobCall(call) /\ call.value = ""
CpusOf(call) == cspec[call.c].cpus

\* C8: for both knobs, a successful apply of a non-empty value leaves, for every
\* CPU of the container, a save record holding the value the live knob had
\* before the apply; a successful restore that follows it leaves the live knob
\* equal to that record, hence to the value before the apply, and no record.
C8_ApplyThenRestore ==
  [][/\ (IsApply(lastCall') /\ ret'.err = OK) =>
          \A cpu \in CpusOf(lastCall') :
            /\ knobSaved'[KnobOf(lastCall')][cpu] = knobLive[KnobOf(lastCall')][cpu]
            /\ knobLive'[KnobOf(lastCall')][cpu] = lastCall'.value
     /\ (/\ IsApply(lastCall) /\ ret.err = OK
         /\ IsRestore(lastCall') /\ ret'.err = OK
         /\ lastCall'.op = lastCall.op /\ lastCall'.c = lastCall.c) =>
          \A cpu \in CpusOf(lastCall') :
            /\ knobLive'[KnobOf(lastCall')][cpu] = knobSaved[KnobOf(lastCall')][cpu]
            /\ knobSaved'[KnobOf(lastCall')][cpu] = NoFile
    ]_vars

\* C8, witness: a successful restore that wrote the live knob and removed the
\* record of both CPUs of c1, which are back at their initial governor.
C8_Witness ==
  /\ lastCall = [op |-> "setCPUFreqGovernor", c |-> "c1", enable |-> FALSE, value |-> ""]
  /\ ret.err = OK
  /\ Len(wlog) = 2 * Cardinality(cspec["c1"].cpus)
  /\ \A cpu \in cspec["c1"].cpus :
       knobLive["governor"][cpu] = "schedutil" /\ knobSaved["governor"][cpu] = NoFile

\* C9: a restore (empty value) when no save record exists for the CPUs of the
\* container returns success and writes nothing; and a restore that follows a
\* successful restore for the same container returns success and leaves the
\* live knobs and the save directory unchanged.
C9_RestoreIdempotent ==
  [][/\ (/\ IsRestore(lastCall')
         /\ \A cpu \in CpusOf(lastCall') : knobSaved[KnobOf(lastCall')][cpu] = NoFile) =>
          /\ ret'.err = OK
          /\ wlog' = <<>>
          /\ knobLive' = knobLive
          /\ knobSaved' = knobSaved
     /\ (/\ IsRestore(lastCall) /\ ret.err = OK
         /\ IsRestore(lastCall')
         /\ lastCall'.op = lastCall.op /\ lastCall'.c = lastCall.c) =>
          /\ ret'.err = OK
          /\ wlog' = <<>>
          /\ knobLive' = knobLive
          /\ knobSaved' = knobSaved
    ]_vars

\* C9, witness: a restore that found no record for the CPUs of the container
\* and returned success without a write.
C9_Witness ==
  /\ IsRestore(lastCall)
  /\ ret.err = OK
  /\ wlog = <<>>
  /\ steps = <<>>
  /\ \A cpu \in CpusOf(lastCall) : knobSaved[KnobOf(lastCall)][cpu] = NoFile

----------------------------------------------------------------------------
(* Claims about setIRQLoadBalancing, checked under SpecIRQ. *)

IsIrqCall(call) == call.op = "setIRQLoadBalancing"

\* The CPUs of the containers whose last call that wrote the mask was a disable.
IrqDisabledCpus(last) == UNION {cspec[c].cpus : c \in {x \in Ctrs : last[x] = "disable"}}

\* C10: starting from the all-ones mask, after every call of a serialized
\* sequence of disable/enable calls for containers with disjoint CPU lists, bit
\* i of the mask is clear exactly when CPU i belongs to a container whose latest
\* call that wrote the mask was a disable (so a disable followed by an enable
\* of the same container gives back the mask it started from), and the call
\* leaves the bits of the CPUs outside the container's list as they were.
C10_MaskTracksDisables ==
  [][IsIrqCall(lastCall') =>
       /\ \A i \in CPUs : (Bit(irqMask', i) = 0) <=> (i \in IrqDisabledCpus(irqLast'))
       /\ \A i \in CPUs \ cspec[lastCall'.c].cpus : Bit(irqMask', i) = Bit(irqMask, i)
    ]_vars

\* C10, witness: c1 enabled again after a disable while c2 is still disabled:
\* exactly the bits of c2 are clear.
C10_Witness ==
  /\ lastCall = [op |-> "setIRQLoadBalancing", c |-> "c1", enable |-> TRUE, value |-> ""]
  /\ ret.err = OK
  /\ irqLast = [c \in Ctrs |-> IF c = "c1" THEN "enable" ELSE "disable"]
  /\ BitsOf(irqMask) = CPUs \ cspec["c2"].cpus
  /\ wlog # <<>>

----------------------------------------------------------------------------
(* Claims about the irqbalance daemon, checked under SpecIRQ. *)

\* The call wrote the affinity mask, and the config file when there is one.
MaskAndConfigWritten(log) ==
  /\ WritesTo(log, IrqSmpAffinityProcFile, "default_smp_affinity") # {}
  /\ irqConfigExists => WritesTo(log, IrqBalanceConfigFile, "irqbalance") # {}

\* The daemon was not available to the call: no binary for the one-shot run,
\* or the restart of the service was requested and failed.
DaemonUnavailable(log, fail) ==
  \/ (~svcEnabled \/ ~irqConfigExists) /\ ~binPresent
  \/ /\ svcEnabled /\ irqConfigExists
     /\ WritesTo(log, IrqBalanceService, "restart irqbalance") # {}
     /\ fail.injected

\* C12: once setIRQLoadBalancing has written the mask (and the config file when
\* it exists), a missing irqbalance binary on the one-shot path or a failed
\* service restart on the managed path does not fail the call: it returns nil
\* and the mask it wrote stays.
C12_DaemonNeverFatal ==
  [][(/\ IsIrqCall(lastCall')
      /\ MaskAndConfigWritten(wlog')
      /\ DaemonUnavailable(wlog', failure')) =>
       /\ ret'.err = OK
       /\ irqMask' = UpdateIRQSmpAffinityMask(cspec[lastCall'.c].cpus, irqMask,
                                              lastCall'.enable).mask
    ]_vars

\* C12, witness: on a node with config file and managed service, a disable for
\* c1 wrote mask and config, the restart failed, and the call returned nil.
C12_Witness ==
  /\ lastCall = [op |-> "setIRQLoadBalancing", c |-> "c1", enable |-> FALSE, value |-> ""]
  /\ svcEnabled /\ irqConfigExists
  /\ MaskAndConfigWritten(wlog)
  /\ WritesTo(wlog, IrqBalanceService, "restart irqbalance") # {}
  /\ failure.injected
  /\ ret.err = OK
  /\ BitsOf(irqMask) = CPUs \ cspec["c1"].cpus

\* C12, witness of the other path: no binary for the one-shot run.
C12_WitnessNoBinary ==
  /\ lastCall = [op |-> "setIRQLoadBalancing", c |-> "c1", enable |-> FALSE, value |-> ""]
  /\ ~svcEnabled /\ ~binPresent
  /\ MaskAndConfigWritten(wlog)
  /\ ret.err = OK
  /\ BitsOf(irqMask) = CPUs \ cspec["c1"].cpus

----------------------------------------------------------------------------
(* Claims about RestoreIrqBalanceConfig, checked under SpecRestore. *)

IsRestoreConfigCall(call) == call.op = "RestoreIrqBalanceConfig"

\* C13: when the live affinity mask is not all-bits-set, RestoreIrqBalanceConfig
\* writes nothing: config file and backup file are neither created nor
\* changed, no restart is requested; and it returns nil (the one way for it to
\* return an error is that reading the mask itself fails).
C13_NotRebootNoWrite ==
  [][(IsRestoreConfigCall(lastCall') /\ ~isAllBitSet(irqMask)) =>
       /\ wlog' = <<>>
       /\ irqBanned' = irqBanned
       /\ irqBackup' = irqBackup
       /\ irqMask' = irqMask
       /\ (ret'.err = OK \/ failure'.injected)
    ]_vars

\* C13, witness: IRQ balancing is disabled for c1, so the mask is not all
\* ones; the config file bans CPUs, there is no backup; the call returned nil
\* and created nothing.
C13_Witness ==
  /\ IsRestoreConfigCall(lastCall)
  /\ BitsOf(irqMask) = CPUs \ cspec["c1"].cpus
  /\ irqConfigExists
  /\ BitsOf(irqBanned) = cspec["c1"].cpus
  /\ ~irqBackup.exists
  /\ ret.err = OK
  /\ ~failure.injected
  /\ wlog = <<>>

\* C14 as stated, its last sentence: after any sequence of calls the backup
\* file holds the value captured by the call that created it.
C14_AsStated == irqBackup.exists => irqBackup.value = irqBackup.captured

\* C14, the rest, for calls none of whose I/O fails: with the mask all ones and
\* a config file, no backup -> the backup is created with the configured value
\* and the config stays; a backup that differs -> the config gets the backup
\* value; a matching backup -> no write.  And an existing backup file is never
\* written, failure or not.
C14_WithoutFailure ==
  [][/\ (/\ IsRestoreConfigCall(lastCall') /\ ~failure'.injected
         /\ isAllBitSet(irqMask) /\ irqConfigExists) =>
          /\ ret'.err = OK
          /\ (~irqBackup.exists) =>
               /\ irqBackup' = [exists |-> TRUE, value |-> irqBanned, captured |-> irqBanned]
               /\ irqBanned' = irqBanned
          /\ (irqBackup.exists /\ irqBackup.value # irqBanned) =>
               /\ irqBanned' = irqBackup.value
               /\ WritesTo(wlog', IrqBalanceConfigFile, "irqbalance") # {}
          /\ (irqBackup.exists /\ irqBackup.value = irqBanned) => wlog' = <<>>
     /\ irqBackup.exists => irqBackup' = irqBackup
    ]_vars

\* C14, a state its three cases lead to: after a reboot the config, which
\* banned the CPUs of c1, was put back to the backed-up value.
C14_Restored ==
  /\ IsRestoreConfigCall(lastCall)
  /\ irqBackup = [exists |-> TRUE, value |-> 0, captured |-> 0]
  /\ irqBanned = 0
  /\ WritesTo(wlog, IrqBalanceConfigFile, "irqbalance") # {}
  /\ ret.err = OK

----------------------------------------------------------------------------
(* Claims about the quota of setSharedCPUs, checked under SpecShared. *)

IsSharedCall(call) == call.op = "setSharedCPUs"

OtherQuotaFile == IF cgroupV2 THEN cgroupV1Quota ELSE cgroupV2Quota

\* C15: a setSharedCPUs call that succeeds leaves, at pod scope and at
\* container scope, in the quota file of the node's cgroup version (cpu.max on
\* v2, cpu.cfs_quota_us on v1), the number of distinct CPUs in the union of the
\* container's CPUs and the shared CPUs times the CFS period; the quota file of
\* the other version is not written.
C15_QuotaOfUnion ==
  [][(IsSharedCall(lastCall') /\ ret'.err = OK) =>
       LET c == lastCall'.c
           quota == Cardinality(cspec[c].cpus \cup lastCall'.value) * cspec[c].period
       IN  /\ cg'[PodDir(c)][quotaFile] = quota
           /\ cg'[CtrDir(c)][quotaFile] = quota
           /\ cg'[PodDir(c)][OtherQuotaFile] = cg[PodDir(c)][OtherQuotaFile]
           /\ cg'[CtrDir(c)][OtherQuotaFile] = cg[CtrDir(c)][OtherQuotaFile]
    ]_vars

\* C15, witness: c1 owns CPUs {0,1}, the shared set {1,3} overlaps it in CPU 1;
\* on cgroup v2 with a period of 100000 the call wrote 300000 to cpu.max of the
\* pod and of the container.
C15_Witness ==
  /\ IsSharedCall(lastCall)
  /\ lastCall.c = "c1"
  /\ lastCall.value = {1, NumCPUs - 1}
  /\ cspec["c1"].cpus = {0, 1}
  /\ cspec["c1"].period = 100000
  /\ cgroupV2
  /\ ret.err = OK
  /\ cg[PodDir("c1")][cgroupV2Quota] = 300000
  /\ cg[CtrDir("c1")][cgroupV2Quota] = 300000

----------------------------------------------------------------------------
(* Claims about concurrent setIRQLoadBalancing calls, checked under SpecIRQRace. *)

\* Every call has returned, and each container has made one.
RaceQuiescent ==
  /\ \A c \in Ctrs : irqProc[c].pc = "idle"
  /\ \A c \in Ctrs : irqLast[c] # "none"

\* The affinity state every serial order of the calls made so far ends in: the
\* CPU lists are disjoint, so the mask has a bit clear exactly for the CPUs of
\* the containers whose last call was a disable, and the config file, which
\* every call rewrites from the mask it wrote, bans exactly those CPUs.
SerialOutcome ==
  /\ BitsOf(irqMask) = CPUs \ IrqDisabledCpus(irqLast)
  /\ irqConfigExists => BitsOf(irqBanned) = IrqDisabledCpus(irqLast)

\* C11: when setIRQLoadBalancing calls for different containers interleave
\* without serialization, the affinity mask and the banned CPUs of the config
\* they end with are those of some serial order of the calls.
C11_AsStated == RaceQuiescent => SerialOutcome

----------------------------------------------------------------------------
(* Claims about the hooks, checked under SpecHooks. *)

\* The pod is burstable or best effort, or the CPU shares are no multiple of 1024.
Ineligible(c) ==
  \/ Contains(sandbox[c].cgroupParent, <<"burstable">>)
  \/ Contains(sandbox[c].cgroupParent, <<"besteffort">>)
  \/ cspec[c].shares % 1024 # 0

\* The directive is requested by its own annotation.
Requested(name, c) ==
  LET annotations == sandbox[c].annotations IN
  CASE name = "lb"       -> Lookup(annotations, CPULoadBalancingAnnotation)
                              \in {annotationTrue, annotationDisable}
    [] name = "shared"   -> Lookup(annotations, CPUSharedAnnotation \o "/" \o c)
                              = annotationEnable
    [] name = "irq"      -> Lookup(annotations, IRQLoadBalancingAnnotation)
                              \in {annotationTrue, annotationDisable}
    [] name = "quota"    -> Lookup(annotations, CPUQuotaAnnotation)
                              \in {annotationTrue, annotationDisable}
    [] name = "cstates"  -> CPUCStatesAnnotation \in DOMAIN annotations
    [] name = "governor" -> CPUFreqGovernorAnnotation \in DOMAIN annotations

PreStartOrder == <<"lb", "shared", "irq", "quota", "cstates", "governor">>
PreStopOrder  == <<"irq", "lb", "cstates", "governor">>

\* The requested directives of a hook, in its order.
RequestedOf(order, c) == SelectSeq(order, LAMBDA name : Requested(name, c))

IsPrefix(p, q) == Len(p) <= Len(q) /\ SubSeq(q, 1, Len(p)) = p

\* The hook ran the requested directives in order, up to the first that failed
\* and whose error it returned, and only the directives it ran wrote, in order.
RanInOrder(order, c, ran, result, log) ==
  /\ IsPrefix(ran, RequestedOf(order, c))
  /\ result.err = OK => ran = RequestedOf(order, c)
  /\ result.err # OK => (ran # <<>> /\ result.step = ran[Len(ran)])
  /\ \A i \in DOMAIN log : \E j \in DOMAIN ran : log[i].step = ran[j]
  /\ \A i, j \in DOMAIN log :
       i <= j => \E a, b \in DOMAIN ran : a <= b /\ log[i].step = ran[a] /\ log[j].step = ran[b]

\* C1: for a container of a burstable or best-effort pod, or with CPU shares
\* that are no multiple of 1024, PreStart and PreStop return success and write
\* no cgroup, IRQ affinity, irqbalance config, sysfs or save-directory file,
\* whatever the annotations.
C1_IneligibleNoOp ==
  [][(lastCall'.op \in {"PreStart", "PreStop"} /\ Ineligible(lastCall'.c)) =>
       /\ ret'.err = OK
       /\ wlog' = <<>>
       /\ steps' = <<>>
       /\ UNCHANGED <<cg, irqMask, irqBanned, knobLive, knobSaved>>
    ]_vars

\* C1, witness: PreStart of a guaranteed container with shares 1500 and all six
\* annotations returned success and wrote nothing.
C1_Witness ==
  /\ lastCall.op = "PreStart"
  /\ cspec[lastCall.c].shares = 1500
  /\ ~Contains(sandbox[lastCall.c].cgroupParent, <<"burstable">>)
  /\ ~Contains(sandbox[lastCall.c].cgroupParent, <<"besteffort">>)
  /\ \A i \in DOMAIN PreStartOrder : Requested(PreStartOrder[i], lastCall.c)
  /\ ret.err = OK
  /\ wlog = <<>>

\* C2: for an eligible container PreStart runs load-balancing-disable, shared
\* CPUs, irq-balancing-disable, quota-disable, c-states, frequency governor in
\* this order, each only when its annotation requests it; when one fails,
\* PreStart returns its error and no later directive writes.
C2_PreStartOrder ==
  (lastCall.op = "PreStart" /\ ~Ineligible(lastCall.c)) =>
    RanInOrder(PreStartOrder, lastCall.c, steps, ret, wlog)

\* C2, witness: all six directives requested, irq-balancing-disable failed
\* after load balancing and the shared CPUs were set up, nothing ran after it.
C2_Witness ==
  /\ lastCall.op = "PreStart"
  /\ ~Ineligible(lastCall.c)
  /\ \A i \in DOMAIN PreStartOrder : Requested(PreStartOrder[i], lastCall.c)
  /\ ret = [err |-> EIO, step |-> "irq"]
  /\ steps = <<"lb", "shared", "irq">>
  /\ \E i \in DOMAIN wlog : wlog[i].step = "shared"

\* C3: for an eligible container PreStop runs irq-balancing re-enable,
\* load-balancing re-enable, c-states restore, governor restore in this order,
\* each only when its annotation is present, stops at the first that fails,
\* and writes no CFS quota file and no cpuset.cpus file.
C3_PreStopOrder ==
  [][(lastCall'.op = "PreStop" /\ ~Ineligible(lastCall'.c)) =>
       /\ RanInOrder(PreStopOrder, lastCall'.c, steps', ret', wlog')
       /\ \A i \in DOMAIN wlog' :
            wlog'[i].file \notin {cgroupV1Quota, cgroupV2Quota, cpusetCpus}
       /\ \A d \in CgDirs :
            /\ cg'[d][cpusetCpus] = cg[d][cpusetCpus]
            /\ cg'[d][cgroupV1Quota] = cg[d][cgroupV1Quota]
            /\ cg'[d][cgroupV2Quota] = cg[d][cgroupV2Quota]
    ]_vars

\* C3, witness: PreStop of a container that got shared CPUs and an unlimited
\* quota at PreStart: IRQ balancing was re-enabled, load balancing failed,
\* the knobs were not restored, and the shared CPUs and the quota are in place.
C3_Witness ==
  /\ lastCall.op = "PreStop"
  /\ ~Ineligible(lastCall.c)
  /\ \A i \in DOMAIN PreStartOrder : Requested(PreStartOrder[i], lastCall.c)
  /\ ret = [err |-> EIO, step |-> "lb"]
  /\ steps = <<"irq", "lb">>
  /\ \E i \in DOMAIN wlog : wlog[i].step = "irq"
  /\ SharedCPUs \subseteq cg[CtrDir(lastCall.c)][cpusetCpus]
  /\ cg[CtrDir(lastCall.c)][quotaFile] = -1

\* C4: PostStop runs the load-balancing re-enable step for every container,
\* eligible or not, with or without the load-balancing annotation; on cgroup
\* v2 a PostStop that succeeds has taken the CPUs of the container out of
\* cpuset.cpus.exclusive of every directory of its path.
C4_PostStopAlways ==
  lastCall.op = "PostStop" =>
    /\ steps = <<"lb">>
    /\ (cgroupV2 /\ ret.err = OK) =>
         /\ wlog # <<>>
         /\ \A d \in Prefixes(CpusetPath(lastCall.c)) :
              cg[d][cpusetExclusive] \cap cspec[lastCall.c].cpus = {}

\* C4, witness: PostStop of a container the gate rejects (shares 1500) and
\* without the load-balancing annotation walked its cgroup path on v2.
C4_Witness ==
  /\ lastCall.op = "PostStop"
  /\ Ineligible(lastCall.c)
  /\ ~Requested("lb", lastCall.c)
  /\ cgroupV2
  /\ ret.err = OK
  /\ steps = <<"lb">>
  /\ Len(wlog) = Len(CpusetPath(lastCall.c)) + 1

----------------------------------------------------------------------------
(* Claims about the nested partition of setSharedCPUs, checked under SpecHooks. *)

IsPreStart(call) == call.op = "PreStart"

NestedPartitionFiles == {cpusetPartition, cgroupSubTreeControl, "mkdir"}

\* C16: on cgroup v2, after a PreStart that succeeds for an eligible container
\* asking for load balancing disabled and for shared CPUs, the container
\* cgroup has partition 'member' and subtree_control '+cpu +cpuset', and its
\* child directory exists with cpuset.cpus and cpuset.cpus.exclusive equal to
\* the container's own CPUs and partition 'isolated'.  When shared CPUs are
\* set up without the load-balancing request, or on v1, the child directory is
\* not created and the shared step writes no partition file and no
\* subtree_control file.
C16_NestedPartition ==
  (IsPreStart(lastCall) /\ ~Ineligible(lastCall.c) /\ Requested("shared", lastCall.c)) =>
    LET c == lastCall.c IN
    IF Requested("lb", c) /\ cgroupV2
    THEN ret.err = OK =>
           /\ cg[CtrDir(c)][cpusetPartition] = "member"
           /\ cg[CtrDir(c)][cgroupSubTreeControl] = "+cpu +cpuset"
           /\ cg[ChildDir(c)].exists
           /\ cg[ChildDir(c)][cpusetCpus] = cspec[c].cpus
           /\ cg[ChildDir(c)][cpusetExclusive] = cspec[c].cpus
           /\ cg[ChildDir(c)][cpusetPartition] = "isolated"
    ELSE /\ ~cg[ChildDir(c)].exists
         /\ \A i \in DOMAIN wlog :
              wlog[i].step = "shared" => wlog[i].file \notin NestedPartitionFiles

\* C16, witness: PreStart succeeded on cgroup v2 for a container that asked
\* for load balancing disabled and shared CPUs; its isolated CPUs sit in the
\* child partition.
C16_Witness ==
  /\ IsPreStart(lastCall)
  /\ ~Ineligible(lastCall.c)
  /\ Requested("shared", lastCall.c)
  /\ Requested("lb", lastCall.c)
  /\ cgroupV2
  /\ ret.err = OK
  /\ cg[CtrDir(lastCall.c)][cpusetPartition] = "member"
  /\ cg[ChildDir(lastCall.c)].exists
  /\ cg[ChildDir(lastCall.c)][cpusetPartition] = "isolated"
  /\ cg[ChildDir(lastCall.c)][cpusetExclusive] = cspec[lastCall.c].cpus

\* C16, witness of the other case: shared CPUs were set up on cgroup v2
\* without the load-balancing request, and no child directory was made.
C16_WitnessNoChild ==
  /\ IsPreStart(lastCall)
  /\ ~Ineligible(lastCall.c)
  /\ Requested("shared", lastCall.c)
  /\ ~Requested("lb", lastCall.c)
  /\ cgroupV2
  /\ ret.err = OK
  /\ \E i \in DOMAIN wlog : wlog[i].step = "shared"
  /\ ~cg[ChildDir(lastCall.c)].exists

----------------------------------------------------------------------------
(* Claims about containers without a CPU list and about the c-states        *)
(* annotation, checked under SpecEdge.                                      *)

IsGatedHook(call) == call.op \in {"PreStart", "PreStop"}

\* The directive calls one of the five functions that need the CPU list: in
\* PreStart the c-states directive calls its setter for 'enable' and 'disable'.
NeedsCPUs(call, name) ==
  \/ name \in {"lb", "shared", "irq", "governor"}
  \/ /\ name = "cstates"
     /\ \/ call.op # "PreStart"
        \/ Lookup(sandbox[call.c].annotations, CPUCStatesAnnotation)
             \in {annotationEnable, annotationDisable}

C18_CStatesSwitch ==
  [][(IsPreStart(lastCall') /\ \E i \in DOMAIN steps' : steps'[i] = "cstates") =>
       LET c == lastCall'.c
           value == Lookup(sandbox[c].annotations, CPUCStatesAnnotation)
       IN  CASE value = annotationEnable ->
                  ret'.step # "cstates" =>
                    \A cpu \in cspec[c].cpus : knobLive'["latency"][cpu] = "0"
             [] value = annotationDisable ->
                  ret'.step # "cstates" =>
                    \A cpu \in cspec[c].cpus : knobLive'["latency"][cpu] = "n/a"
             [] OTHER ->
                  /\ ret' = [err |-> ErrAnnotation, step |-> "cstates"]
                  /\ knobLive'["latency"] = knobLive["latency"]
                  /\ knobSaved'["latency"] = knobSaved["latency"]
                  /\ \A j \in DOMAIN wlog' : wlog'[j].step # "cstates"
                  /\ \A j \in DOMAIN steps' : steps'[j] # "governor"
    ]_vars

\* C18, witness: PreStart with the c-states annotation set to the empty string
\* and a governor requested stopped at the c-states directive.
C18_Witness ==
  /\ IsPreStart(lastCall)
  /\ CPUCStatesAnnotation \in DOMAIN sandbox[lastCall.c].annotations
  /\ sandbox[lastCall.c].annotations[CPUCStatesAnnotation] = ""
  /\ Requested("governor", lastCall.c)
  /\ cspec[lastCall.c].cpus # {}
  /\ ret = [err |-> ErrAnnotation, step |-> "cstates"]
  /\ knobLive["latency"] = [cpu \in CPUs |-> "100"]

\* C18, witness of the 'disable' case: the resume latency of the container's
\* CPUs is 'n/a' after a PreStart that succeeded.
C18_WitnessDisable ==
  /\ IsPreStart(lastCall)
  /\ Lookup(sandbox[lastCall.c].annotations, CPUCStatesAnnotation) = annotationDisable
  /\ ret.err = OK
  /\ cspec[lastCall.c].cpus # {}
  /\ \A cpu \in cspec[lastCall.c].cpus : knobLive["latency"][cpu] = "n/a"

----------------------------------------------------------------------------
(* Claims about unsupported governors, checked under SpecKnob. *)

IsGovernorApply(call) == call.op = "setCPUFreqGovernor" /\ call.value # ""

\* C19: a call that applies a governor to a container with a CPU whose
\* scaling_available_governors lacks it returns an error (the 'not available'
\* error when no I/O failed), and for every such CPU the save record and the
\* live scaling_governor are what they were before the call.
C19_UnsupportedGovernor ==
  [][IsGovernorApply(lastCall') =>
       \A cpu \in CpusOf(lastCall') :
         lastCall'.value \notin AvailableGovernors(cpu) =>
           /\ ret'.err # OK
           /\ ~failure'.injected => ret'.err = ErrGovernor
           /\ knobSaved'["governor"][cpu] = knobSaved["governor"][cpu]
           /\ knobLive'["governor"][cpu] = knobLive["governor"][cpu]
    ]_vars

\* C19, witness: 'performance' applied to c1, whose CPU 1 does not offer it:
\* the call failed at CPU 1, which keeps its governor and has no save record
\* (CPU 0, which offers it, was switched before).
C19_Witness ==
  /\ lastCall = [op |-> "setCPUFreqGovernor", c |-> "c1", enable |-> FALSE,
                 value |-> "performance"]
  /\ ret.err = ErrGovernor
  /\ ~failure.injected
  /\ knobLive["governor"][1] = "schedutil"
  /\ knobSaved["governor"][1] = NoFile
  /\ knobLive["governor"][0] = "performance"
  /\ knobSaved["governor"][0] = "schedutil"

----------------------------------------------------------------------------
(* Claims about save records across calls, checked under SpecKnob. *)

\* C21 as stated: whenever a restore call (empty value) returns success, no
\* save record remains for any CPU of the container's CPU list.
C21_AsStated ==
  [][(IsRestore(lastCall') /\ ret'.err = OK) =>
       \A cpu \in CpusOf(lastCall') : knobSaved'[KnobOf(lastCall')][cpu] = NoFile
    ]_vars

\* C21, what a successful restore does achieve: the CPUs of the list up to
\* the first one without a save record have no record left and have their
\* live knob back at the saved value; the CPUs after it are not looked at.
C21_RestoreUpToFirstGap ==
  [][(IsRestore(lastCall') /\ ret'.err = OK) =>
       LET k == KnobOf(lastCall')
           gaps == {cpu \in CpusOf(lastCall') : knobSaved[k][cpu] = NoFile}
       IN  \A cpu \in CpusOf(lastCall') :
             IF \E g \in gaps : g <= cpu
             THEN /\ knobSaved'[k][cpu] = knobSaved[k][cpu]
                  /\ knobLive'[k][cpu] = knobLive[k][cpu]
             ELSE /\ knobSaved'[k][cpu] = NoFile
                  /\ knobLive'[k][cpu] = knobSaved[k][cpu]
    ]_vars

\* C22 as stated: applying a value to a CPU that already has a save record
\* does not change the record.
C22_AsStated ==
  [][IsApply(lastCall') =>
       \A cpu \in CpusOf(lastCall') :
         knobSaved[KnobOf(lastCall')][cpu] # NoFile =>
           knobSaved'[KnobOf(lastCall')][cpu] = knobSaved[KnobOf(lastCall')][cpu]
    ]_vars

\* C22, what the code does with the record: an apply that gets as far as the
\* live write of a CPU leaves in its record the live value of just before the
\* call, whether a record existed or not.
C22_RecordIsLastLiveValue ==
  [][IsApply(lastCall') =>
       \A cpu \in CpusOf(lastCall') :
         knobLive'[KnobOf(lastCall')][cpu] # knobLive[KnobOf(lastCall')][cpu] =>
           knobSaved'[KnobOf(lastCall')][cpu] = knobLive[KnobOf(lastCall')][cpu]
    ]_vars

----------------------------------------------------------------------------
(* Claims about containers that share ancestor directories, checked under  *)
(* SpecLB: the calls are serialized, c1 owns {0,1}, c2 owns {2}, and the    *)
(* ancestors start with cpuset.cpus.exclusive disjoint from both.           *)

SharedAncestors == {d \in CgDirs : \A c \in Ctrs : d \in Prefixes(CpusetPath(c)) /\ d # CtrDir(c)}

\* The CPUs outside the container's own list.
NotOf(c) == CPUs \ cspec[c].cpus

\* C23 as stated, one call at a time (the claim follows by induction over
\* the calls): on cgroup v2 a call for container c leaves, in every shared
\* ancestor, the CPUs that are not c's as they were; a successful disable
\* leaves c's CPUs in cpuset.cpus.exclusive, a successful enable leaves none
\* of them, and a failed call leaves c's CPUs as they were.
C23_AsStated ==
  [][(cgroupV2 /\ lastCall'.op = "setCPULoadBalancing") =>
       LET c == lastCall'.c IN
       \A d \in SharedAncestors :
         /\ cg'[d][cpusetExclusive] \cap NotOf(c) = cg[d][cpusetExclusive] \cap NotOf(c)
         /\ (ret'.err = OK /\ ~lastCall'.enable) => cspec[c].cpus \subseteq cg'[d][cpusetExclusive]
         /\ (ret'.err = OK /\ lastCall'.enable) => cspec[c].cpus \cap cg'[d][cpusetExclusive] = {}
         /\ ret'.err # OK => cg'[d][cpusetExclusive] = cg[d][cpusetExclusive]
    ]_vars

\* C23, amended: the same, where a failed call leaves c's CPUs as they were
\* in every shared ancestor whose rollback write did not fail.
C23_AncestorsTrackDisables ==
  [][(cgroupV2 /\ lastCall'.op = "setCPULoadBalancing") =>
       LET c == lastCall'.c IN
       \A d \in SharedAncestors :
         /\ cg'[d][cpusetExclusive] \cap NotOf(c) = cg[d][cpusetExclusive] \cap NotOf(c)
         /\ (ret'.err = OK /\ ~lastCall'.enable) => cspec[c].cpus \subseteq cg'[d][cpusetExclusive]
         /\ (ret'.err = OK /\ lastCall'.enable) => cspec[c].cpus \cap cg'[d][cpusetExclusive] = {}
         /\ (ret'.err # OK /\ d \notin failure'.revertFailed) =>
              cg'[d][cpusetExclusive] = cg[d][cpusetExclusive]
    ]_vars

\* C23, witness: load balancing is disabled for c2; a disable for c1 failed
\* below the shared ancestors and was rolled back: the ancestors hold their
\* initial CPUs and those of c2, and none of c1.
C23_Witness ==
  /\ cgroupV2
  /\ lastCall.op = "setCPULoadBalancing"
  /\ lastCall.c = "c1"
  /\ ~lastCall.enable
  /\ ret.err # OK
  /\ failure.depth = Len(CpusetPath("c1"))
  /\ failure.revertFailed = {}
  /\ cg[<<"kubepods">>][cpusetExclusive] = SharedCPUs \cup cspec["c2"].cpus
  /\ cg[PodDir("c1")][cpusetExclusive] = cspec["c2"].cpus
  /\ Cardinality(WritesTo(wlog, PodDir("c1"), cpusetExclusive)) = 2

----------------------------------------------------------------------------
(* Claims about an apply that fails part-way, checked under SpecKnob. *)

\* C24: an apply that returns an error for a container with CPUs failed on
\* one CPU j of the list: every CPU of the list below j has the new live value
\* and a save record with the live value of before the call, and every CPU of
\* the list above j has its live value and its save record as before the call.
C24_NoRollbackOnApply ==
  [][(IsApply(lastCall') /\ ret'.err # OK) =>
       LET k == KnobOf(lastCall') IN
       \E j \in CpusOf(lastCall') :
         \A cpu \in CpusOf(lastCall') :
           /\ cpu < j => /\ knobLive'[k][cpu] = lastCall'.value
                         /\ knobSaved'[k][cpu] = knobLive[k][cpu]
           /\ cpu > j => /\ knobLive'[k][cpu] = knobLive[k][cpu]
                         /\ knobSaved'[k][cpu] = knobSaved[k][cpu]
    ]_vars

\* C24, witness: 'n/a' applied to c1 failed with an I/O error on CPU 1 after
\* CPU 0 was switched: CPU 0 keeps 'n/a' and its record, CPU 1 has its old
\* latency.
C24_Witness ==
  /\ lastCall = [op |-> "setCPUPMQOSResumeLatency", c |-> "c1", enable |-> FALSE,
                 value |-> "n/a"]
  /\ ret.err = EIO
  /\ failure.injected
  /\ knobLive["latency"][0] = "n/a"
  /\ knobSaved["latency"][0] = "100"
  /\ knobLive["latency"][1] = "100"
  /\ knobSaved["latency"][1] = NoFile

----------------------------------------------------------------------------
(* Claims about cpuset.cpus under setSharedCPUs, checked under SpecShared. *)

\* C25: a setSharedCPUs call that succeeds leaves cpuset.cpus of the pod and
\* of the container equal to what they held united with the shared CPUs, and
\* wrote the pod's file before the container's; a call that fails after the
\* pod scope was done leaves the pod with the united cpuset.cpus and the new
\* quota.
C25_UnionPodFirst ==
  [][IsSharedCall(lastCall') =>
       LET c == lastCall'.c
           sharedCPUs == lastCall'.value
           quota == Cardinality(cspec[c].cpus \cup sharedCPUs) * cspec[c].period
       IN  /\ ret'.err = OK =>
                /\ cg'[PodDir(c)][cpusetCpus] = cg[PodDir(c)][cpusetCpus] \cup sharedCPUs
                /\ cg'[CtrDir(c)][cpusetCpus] = cg[CtrDir(c)][cpusetCpus] \cup sharedCPUs
                /\ WritesTo(wlog', CtrDir(c), cpusetCpus) # {}
           /\ \A i \in WritesTo(wlog', CtrDir(c), cpusetCpus) \cup
                        WritesTo(wlog', CtrDir(c), quotaFile) :
                /\ \E j \in WritesTo(wlog', PodDir(c), cpusetCpus) : j < i
                /\ \E j \in WritesTo(wlog', PodDir(c), quotaFile) : j < i
           /\ (ret'.err # OK /\ WritesTo(wlog', PodDir(c), quotaFile) # {}) =>
                /\ cg'[PodDir(c)][cpusetCpus] = cg[PodDir(c)][cpusetCpus] \cup sharedCPUs
                /\ cg'[PodDir(c)][quotaFile] = quota
    ]_vars

\* C25, witness: the call for c1 failed at the container's cpuset.cpus: the
\* pod has the shared CPUs and the new quota, the container has neither.
C25_Witness ==
  /\ IsSharedCall(lastCall)
  /\ lastCall.c = "c1"
  /\ lastCall.value = {NumCPUs - 2, NumCPUs - 1}
  /\ ret.err = EIO
  /\ cspec["c1"].period = 100000
  /\ cg[PodDir("c1")][cpusetCpus] = Below(PodDir("c1")) \cup lastCall.value
  /\ cg[PodDir("c1")][quotaFile] = 400000
  /\ cg[CtrDir("c1")][cpusetCpus] = cspec["c1"].cpus
  /\ cg[CtrDir("c1")][quotaFile] = 200000

----------------------------------------------------------------------------
(* Claims about setCPULoadBalancing on cgroup v1, checked under SpecLB. *)

IsLBCallV1(call) == ~cgroupV2 /\ call.op = "setCPULoadBalancing"

\* C26: on cgroup v1 a disable that succeeds has made exactly one write, '0'
\* to cpuset.sched_load_balance of the container's cpuset cgroup, and changed
\* no other file; a disable that fails has changed no file; an enable returns
\* nil and writes nothing.
C26_V1SingleWrite ==
  [][IsLBCallV1(lastCall') =>
       LET c == lastCall'.c IN
       IF lastCall'.enable
       THEN ret'.err = OK /\ wlog' = <<>> /\ cg' = cg
       ELSE IF ret'.err = OK
       THEN /\ Len(wlog') = 1
            /\ wlog'[1].dir = CtrDir(c)
            /\ wlog'[1].file = schedLoadBalance
            /\ cg' = [cg EXCEPT ![CtrDir(c)][schedLoadBalance] = "0"]
       ELSE wlog' = <<>> /\ cg' = cg
    ]_vars

\* C26, witness: on v1 load balancing was disabled for c1 with one write.
C26_Witness ==
  /\ IsLBCallV1(lastCall)
  /\ lastCall.c = "c1"
  /\ ~lastCall.enable
  /\ ret.err = OK
  /\ Len(wlog) = 1
  /\ cg[CtrDir("c1")][schedLoadBalance] = "0"
  /\ cg[PodDir("c1")][schedLoadBalance] = "1"

\* C26, witness of the enable case: after that disable, an enable on v1
\* returned nil and left the file at '0'.
C26_WitnessEnable ==
  /\ IsLBCallV1(lastCall)
  /\ lastCall.c = "c1"
  /\ lastCall.enable
  /\ ret.err = OK
  /\ wlog = <<>>
  /\ cg[CtrDir("c1")][schedLoadBalance] = "0"

====
